---- MODULE Spec2Model ----
(***************************************************************************)
(* State-machine model of the MongoDB storage handler of acme2certifier    *)
(* (src/db_handler_mongod.py, class DBstore).                              *)
(*                                                                         *)
(* A collection is a sequence of documents in insertion (natural) order;   *)
(* a document and a data_dic are functions from field names to tagged      *)
(* values, with exactly the fields that are present.  Every public method  *)
(* is one action; its outcome is recorded in ret, including the exception  *)
(* that leaves the method when one is raised outside a try block.          *)
(* The backing store answers every request, except in SpecFailure, where   *)
(* a lookup's request may raise.                                           *)
(* The command-line client (src/tools/a2c_cli.py) and CAhandler.enroll     *)
(* (src/acme_srv/certsecure_handler.py) are modelled next to it.           *)
(***************************************************************************)
EXTENDS Integers, Sequences, FiniteSets, TLC

VARIABLES
    account,        \* db['account']
    orders,         \* db['orders']
    authorization,  \* db['authorization']
    challenge,      \* db['challenge']
    Certificate,    \* db['Certificate'] (written by certificate_add)
    certificate,    \* db['certificate'] (read by lookup/search/delete)
    status,         \* db['status']
    housekeeping,   \* db['housekeeping']
    cahandler,      \* db['cahandler']
    cliaccount,     \* db['cliaccount']
    nonce,          \* db['nonce']
    nextid,         \* per collection, the serial of the next ObjectId the store assigns
    ret,            \* the last operation and what it returned or raised: [op, res]
    nlog,           \* history of the nonce operations: <<[op, n, res], ...>>
    pc,             \* concurrent nonce validation: each caller's position
    seen,           \* concurrent nonce validation: the nonce each caller checked
                    \* and what nonce_check returned to it
    cli,            \* tools/a2c_cli.py: the CommandLineInterface object and what
                    \* its last command printed
    ca              \* acme_srv/certsecure_handler.py: the position and the
                    \* locals of a CAhandler.enroll call

vars == <<account, orders, authorization, challenge, Certificate, certificate,
          status, housekeeping, cahandler, cliaccount, nonce, nextid, ret,
          nlog, pc, seen, cli, ca>>

dbvars == <<account, orders, authorization, challenge, Certificate, certificate,
            status, housekeeping, cahandler, cliaccount>>

noncevars == <<nonce, nlog, pc, seen>>

toolvars == <<cli, ca>>

----------------------------------------------------------------------------
(* Bounds of the model *)

\* number of documents the add operations may insert in one behaviour
MaxDocs == 3

\* number of nonce operations recorded in one behaviour
MaxNonceOps == 4

\* a delete is taken only while the collection's next ObjectId serial is at
\* most this (records can be deleted and added again without end)
MaxSerial == 3

----------------------------------------------------------------------------
(* Values: Python / BSON values are tagged pairs *)

None == <<"none", 0>>
Oid(n) == <<"oid", n>>
OidStr(n) == <<"oidstr", n>>
Num(i) == <<"int", i>>
Str(s) == <<"str", s>>
Bool(b) == <<"bool", b>>
Pair(a, b) == <<"pair", <<a, b>>>>
\* a dict result: <<>> for {} and <<d>> for the document d; a list result
Dict(o) == <<"dict", o>>
List(rows) == <<"list", rows>>
Raise(e) == <<"raise", e>>

IsStr(v) == v[1] = "str"
IsRaise(v) == v[1] = "raise"

EmptyStr == Str(<<>>)

----------------------------------------------------------------------------
(* Dictionaries *)

Has(d, k) == k \in DOMAIN d
Get(d, k) == IF k \in DOMAIN d THEN d[k] ELSE None
GetOr(d, k, dflt) == IF k \in DOMAIN d THEN d[k] ELSE dflt
SetDefault(d, k, v) == d @@ (k :> v)
SetKey(d, k, v) == (k :> v) @@ d
\* the effect of {'$set': upd} on document d
SetFields(d, upd) == upd @@ d

MinOf(S) == CHOOSE i \in S : \A j \in S : i <= j

----------------------------------------------------------------------------
(* Strings are sequences of characters; '$regex' with '$options': 'i'       *)

LowerChar(c) ==
    CASE c = "A" -> "a"
      [] c = "B" -> "b"
      [] OTHER -> c

Lower(s) == [i \in 1..Len(s) |-> LowerChar(s[i])]

Contains(s, p) ==
    \E i \in 0..(Len(s) - Len(p)) : \A j \in 1..Len(p) : s[i + j] = p[j]

\* {column: {'$regex': pattern, '$options': 'i'}} on document d: an unanchored,
\* case-insensitive search; a missing or non-string field never matches.
\* f'.*{pattern}.*' matches the same documents.
RegexMatch(d, column, pattern) ==
    /\ Has(d, column)
    /\ IsStr(d[column])
    /\ IsStr(pattern)
    /\ Contains(Lower(d[column][2]), Lower(pattern[2]))

\* {column: value} on document d: exact equality
ExactMatch(d, column, value) == Has(d, column) /\ d[column] = value

\* query filters: {column: value}, {column: {'$regex': ..., '$options': 'i'}}, {}
Exact(column, value) == <<"eq", column, value>>
Regex(column, pattern) == <<"re", column, pattern>>
All == <<"all", "", None>>

Matches(d, f) ==
    CASE f[1] = "eq" -> ExactMatch(d, f[2], f[3])
      [] f[1] = "re" -> RegexMatch(d, f[2], f[3])
      [] OTHER -> TRUE

----------------------------------------------------------------------------
(* Collection primitives (pymongo) *)

\* indexes of the documents of coll that match filter f
Matching(coll, f) == {i \in 1..Len(coll) : Matches(coll[i], f)}

\* find_one: the first matching document as <<doc>>, or <<>> (None)
FindOne(coll, f) ==
    LET m == Matching(coll, f) IN
    IF m = {} THEN <<>> ELSE <<coll[MinOf(m)]>>

\* insert_one: the store assigns _id.  An ObjectId is modelled as the pair of
\* the collection's name and a serial number, unique over the whole store.
InsertOne(coll, d, id) == Append(coll, SetKey(d, "_id", Oid(id)))

\* update_one(filter, {'$set': upd}): the first matching document only
UpdateOne(coll, f, upd) ==
    LET m == Matching(coll, f) IN
    IF m = {} THEN coll
    ELSE [coll EXCEPT ![MinOf(m)] = SetFields(@, upd)]

\* update_many(filter, {'$set': upd})
UpdateMany(coll, f, upd) ==
    [i \in 1..Len(coll) |->
        IF Matches(coll[i], f) THEN SetFields(coll[i], upd) ELSE coll[i]]

\* delete_one(filter): the first matching document only
DeleteOne(coll, f) ==
    LET m == Matching(coll, f) IN
    IF m = {} THEN coll
    ELSE LET k == MinOf(m) IN
         [i \in 1..(Len(coll) - 1) |-> IF i < k THEN coll[i] ELSE coll[i + 1]]

\* count_documents(filter)
CountDocuments(coll, f) == Cardinality(Matching(coll, f))

----------------------------------------------------------------------------
(* Program constants and the inputs the callers draw from *)

\* _db_create: status_names
status_names ==
    << <<"i","n","v","a","l","i","d">>,
       <<"p","e","n","d","i","n","g">>,
       <<"r","e","a","d","y">>,
       <<"p","r","o","c","e","s","s","i","n","g">>,
       <<"v","a","l","i","d">>,
       <<"e","x","p","i","r","e","d">>,
       <<"d","e","a","c","t","i","v","a","t","e","d">>,
       <<"r","e","v","o","k","e","d">> >>

\* _db_update_status: new_statuses
new_statuses ==
    << <<"d","e","a","c","t","i","v","a","t","e","d">>,
       <<"e","x","p","i","r","e","d">>,
       <<"r","e","v","o","k","e","d">> >>

\* acme_srv.version.__dbversion__ (an opaque version string)
dbversion == Str(<<"d","b","v">>)

\* the literal key 'status_id' as a string value
StatusIdKey == Str(<<"s","t","a","t","u","s","_","i","d">>)

\* Entity names the callers use.  "a" is a case-insensitive substring of
\* "Ab"; "Ab" is not a substring of "a".
NameA == <<"a">>
NameAb == <<"A", "b">>
NameSet == {NameA, NameAb}

\* a status name outside the vocabulary
BogusStatus == <<"b","o","g","u","s">>

\* public-key material of accounts
JwkSet == {<<"k", "1">>, <<"k", "2">>}

----------------------------------------------------------------------------
(* Private search helpers *)

\* _account_search(column, string): find_one with a regex filter
account_search(column, string) == FindOne(account, Regex(column, string))

\* _order_search(column, string)
order_search(column, string) == FindOne(orders, Regex(column, string))

\* _cliaccount_search(column, string)
cliaccount_search(column, string) == FindOne(cliaccount, Regex(column, string))

\* _certificate_search(column, string): reads db['Certificate']; both branches
\* of the column test build the same regex filter
certificate_search(column, string) == FindOne(Certificate, Regex(column, string))

\* _status_search(column, string): returns the tuple (result, exists)
status_search(column, string) ==
    LET result == FindOne(status, Regex(column, string)) IN
    <<result, result # <<>>>>

\* '$lookup' from coll with localField/foreignField '_id' followed by
\* '$unwind' with preserveNullAndEmptyArrays: the joined document as <<doc>>,
\* or <<>> when the local value is absent or matches no _id
JoinById(coll, d, localField) ==
    IF Has(d, localField) THEN FindOne(coll, Exact("_id", d[localField])) ELSE <<>>

\* one row of _authorization_search's pipeline before '$match' and '$project'
AuthzJoined(d) ==
    LET order_data == JoinById(orders, d, "order")
        status_data == JoinById(status, d, "status")
        account_data ==
            IF order_data = <<>> THEN <<>> ELSE JoinById(account, order_data[1], "account")
    IN [doc |-> d, order_data |-> order_data, status_data |-> status_data,
        account_data |-> account_data]

\* the '$project' stage of _authorization_search: '_id' is excluded, 'name' is
\* '$authorization.name' (a path no document has) replaced by '' through
\* '$ifNull', and a projected path that is missing yields no field
AuthzProject(j) ==
    LET base == [k \in (DOMAIN j.doc \cap {"type", "value"}) |-> j.doc[k]]
        n == SetKey(base, "name", EmptyStr)
        o == IF j.order_data = <<>> THEN n
             ELSE SetKey(SetKey(n, "order__id", j.order_data[1]["_id"]),
                         "order__name", Get(j.order_data[1], "name"))
        st == IF j.status_data = <<>> THEN o
              ELSE SetKey(SetKey(o, "status_id", j.status_data[1]["_id"]),
                          "status__name", Get(j.status_data[1], "name"))
    IN IF j.account_data = <<>> THEN st
       ELSE SetKey(st, "order__account__name", Get(j.account_data[1], "name"))

\* the '$match' stage of _authorization_search runs on the joined document,
\* before '$project': column is a field of the authorization document or a
\* dotted path into order_data, status_data or account_data
AuthzMatch(j, column, string) ==
    CASE column = "order_data.name" ->
            j.order_data # <<>> /\ RegexMatch(j.order_data[1], "name", string)
      [] column = "status_data.name" ->
            j.status_data # <<>> /\ RegexMatch(j.status_data[1], "name", string)
      [] column = "account_data.name" ->
            j.account_data # <<>> /\ RegexMatch(j.account_data[1], "name", string)
      [] OTHER -> RegexMatch(j.doc, column, string)

\* _authorization_search(column, string): the projected rows of the matching
\* joined documents, in order
authorization_search(column, string) ==
    LET sel == SelectSeq(authorization,
                         LAMBDA d : AuthzMatch(AuthzJoined(d), column, string))
    IN [i \in 1..Len(sel) |-> AuthzProject(AuthzJoined(sel[i]))]

\* authorization_lookup(column, string, vlist): returns the rows of
\* _authorization_search unchanged (a list; vlist is not applied)
authorization_lookup(column, string) == authorization_search(column, string)

\* account_lookup(column, string): the first matching document or {}
account_lookup(column, string) == FindOne(account, Regex(column, string))

\* dict_from_row(row) on a dict: dict(zip(row.keys(), row)) maps each key to
\* itself, because iterating a dict yields its keys
KeyStr(k) == IF k = "status_id" THEN StatusIdKey ELSE Str(<<k>>)
dict_from_row(row) == [k \in DOMAIN row |-> KeyStr(k)]

\* _challenge_search(column, string): '$match' on the challenge document, then
\* the joins through authorization_id, order_id and account_id, each followed
\* by an '$unwind' that drops a row without a parent; the first row or None
ChallengeJoinable(d) ==
    LET a == JoinById(authorization, d, "authorization_id") IN
    /\ a # <<>>
    /\ LET o == JoinById(orders, a[1], "order_id") IN
       /\ o # <<>>
       /\ JoinById(account, o[1], "account_id") # <<>>

challenge_search(column, string) ==
    LET m == {i \in 1..Len(challenge) :
                /\ RegexMatch(challenge[i], column, string)
                /\ ChallengeJoinable(challenge[i])}
    IN IF m = {} THEN <<>> ELSE <<challenge[MinOf(m)]>>

\* cahandler_lookup(column, string, vlist): {ele: lookup.get(ele)} or {}
cahandler_lookup(column, string, vlist) ==
    LET lookup == FindOne(cahandler, Regex(column, string)) IN
    IF lookup = <<>> THEN <<>>
    ELSE <<[ele \in vlist |-> Get(lookup[1], ele)]>>

----------------------------------------------------------------------------
(* Entity store operations: one action per public method *)

\* documents written by the add operations (db_update's own records, the
\* nameless account it upserts and the schema version, are not counted)
Added(coll) ==
    Cardinality({i \in 1..Len(coll) :
                    /\ Has(coll[i], "name")
                    /\ coll[i]["name"] # Str(<<"d","b","v","e","r","s","i","o","n">>)})

DocCount ==
    Added(account) + Added(orders) + Added(authorization) + Added(challenge)
    + Added(Certificate) + Added(cahandler) + Added(cliaccount) + Added(housekeeping)

CanInsert == DocCount < MaxDocs

NewId(c) == <<c, nextid[c]>>
Bump(c) == [nextid EXCEPT ![c] = @ + 1]

Result(op, res) == [op |-> op, res |-> res]

\* an account_add whose upsert is keyed on the name instead of the jwk
account_add_byname(d) ==
    LET d1 == SetDefault(d, "eab_kid", EmptyStr)
        existing_account == FindOne(account, Exact("name", d1["name"]))
    IN IF existing_account # <<>>
       THEN /\ account' = UpdateOne(account, Exact("name", d1["name"]),
                                    [alg |-> d1["alg"], contact |-> d1["contact"]])
            /\ nextid' = nextid
            /\ ret' = Result("account_add",
                             Pair(existing_account[1]["name"], Bool(FALSE)))
       ELSE /\ CanInsert
            /\ account' = InsertOne(account, d1, NewId("account"))
            /\ nextid' = Bump("account")
            /\ ret' = Result("account_add", Pair(d1["name"], Bool(TRUE)))

\* account_add(data_dic): upsert keyed on jwk
account_add(d) ==
    LET d1 == SetDefault(d, "eab_kid", EmptyStr)
        existing_account == FindOne(account, Exact("jwk", d1["jwk"]))
    IN IF existing_account # <<>>
       THEN /\ account' = UpdateOne(account, Exact("jwk", d1["jwk"]),
                                    [alg |-> d1["alg"], contact |-> d1["contact"]])
            /\ nextid' = nextid
            /\ ret' = Result("account_add",
                             Pair(existing_account[1]["name"], Bool(FALSE)))
       ELSE /\ CanInsert
            /\ account' = InsertOne(account, d1, NewId("account"))
            /\ nextid' = Bump("account")
            /\ ret' = Result("account_add", Pair(d1["name"], Bool(TRUE)))

\* order_add(data_dic)
order_add(d) ==
    LET d1 == SetDefault(SetDefault(d, "notbefore", Num(0)), "notafter", Num(0))
        acc == account_lookup("name", d1["account"])
    IN IF acc # <<>>
       THEN /\ CanInsert
            /\ orders' = InsertOne(orders, SetKey(d1, "account", acc[1]["_id"]), NewId("orders"))
            /\ nextid' = Bump("orders")
            /\ ret' = Result("order_add", OidStr(NewId("orders")))
       ELSE /\ orders' = orders
            /\ nextid' = nextid
            /\ ret' = Result("order_add", None)

\* authorization_add(data_dic): the document is inserted as supplied
authorization_add(d) ==
    /\ CanInsert
    /\ authorization' = InsertOne(authorization, d, NewId("authorization"))
    /\ nextid' = Bump("authorization")
    /\ ret' = Result("authorization_add", OidStr(NewId("authorization")))

\* challenge_add(value, mtype, data_dic): authorization_lookup returns a list,
\* so authorization['_id'] raises TypeError whenever the list is not empty;
\* the insert that follows it is never reached
challenge_add(d) ==
    LET authz == authorization_lookup("name", d["authorization"]) IN
    /\ challenge' = challenge
    /\ nextid' = nextid
    /\ ret' = Result("challenge_add",
                     IF authz # <<>> THEN Raise("TypeError") ELSE None)

\* _certificate_insert(data_dic): the document written to db['Certificate']
certificate_insert_doc(d) ==
    LET order_doc == IF Has(d, "order") THEN order_search("name", d["order"]) ELSE <<>>
        d1 == SetKey(d, "order", IF order_doc # <<>> THEN order_doc[1]["_id"] ELSE None)
    IN SetDefault(SetDefault(SetDefault(d1, "csr", EmptyStr),
                             "header_info", EmptyStr), "error", EmptyStr)

\* _certificate_update(data_dic, exists): the '$set' document
certificate_update_set(d, exists) ==
    IF Has(d, "error")
    THEN [error |-> d["error"],
          poll_identifier |-> GetOr(d, "poll_identifier", Get(exists, "poll_identifier"))]
    ELSE [k \in {"cert", "cert_raw", "issue_uts", "expire_uts", "renewal_info",
                 "poll_identifier", "replaced", "header_info", "serial", "aki"}
            |-> GetOr(d, k, Get(exists, k))]

\* certificate_add(data_dic)
certificate_add(d) ==
    LET exists == certificate_search("name", d["name"]) IN
    IF exists # <<>>
    THEN LET e == exists[1]
             d1 == SetDefault(SetDefault(SetDefault(SetDefault(SetDefault(d,
                     "poll_identifier", Get(e, "poll_identifier")),
                     "renewal_info", Get(e, "renewal_info")),
                     "header_info", Get(e, "header_info")),
                     "aki", Get(e, "aki")),
                     "serial", Get(e, "serial"))
         IN /\ Certificate' = UpdateOne(Certificate, Exact("name", e["name"]),
                                        certificate_update_set(d1, e))
            /\ nextid' = nextid
            /\ ret' = Result("certificate_add", e["_id"])
    ELSE /\ CanInsert
         /\ Certificate' = InsertOne(Certificate, certificate_insert_doc(d), NewId("Certificate"))
         /\ nextid' = Bump("Certificate")
         /\ ret' = Result("certificate_add", Oid(NewId("Certificate")))

\* cliaccount_add(data_dic)
cliaccount_add(d) ==
    LET exists == cliaccount_search("name", d["name"]) IN
    IF exists # <<>>
    THEN /\ cliaccount' = UpdateOne(cliaccount, Exact("name", d["name"]),
                [contact |-> GetOr(d, "contact", Get(exists[1], "contact")),
                 jwk |-> GetOr(d, "jwk", Get(exists[1], "jwk")),
                 reportadmin |-> Get(d, "reportadmin"),
                 cliadmin |-> Get(d, "cliadmin"),
                 certificateadmin |-> Get(d, "certificateadmin")])
         /\ nextid' = nextid
         /\ ret' = Result("cliaccount_add", OidStr(exists[1]["_id"][2]))
    ELSE /\ CanInsert
         /\ cliaccount' = InsertOne(cliaccount, d, NewId("cliaccount"))
         /\ nextid' = Bump("cliaccount")
         /\ ret' = Result("cliaccount_add", OidStr(NewId("cliaccount")))

\* cahandler_add(data_dic)
cahandler_add(d) ==
    LET d1 == SetDefault(d, "value2", EmptyStr)
        exists == cahandler_lookup("name", d1["name"], {"id", "name"})
    IN IF exists # <<>>
       THEN /\ cahandler' = UpdateOne(cahandler, Exact("name", d1["name"]),
                                      [value1 |-> d1["value1"], value2 |-> d1["value2"]])
            /\ nextid' = nextid
            /\ ret' = Result("cahandler_add", exists[1]["id"])
       ELSE /\ CanInsert
            /\ cahandler' = InsertOne(cahandler, d1, NewId("cahandler"))
            /\ nextid' = Bump("cahandler")
            /\ ret' = Result("cahandler_add", OidStr(NewId("cahandler")))

\* hkparameter_add(data_dic): update_one(..., upsert=True) keyed on the exact name
hkparameter_add(d) ==
    LET present == Matching(housekeeping, Exact("name", d["name"])) # {} IN
    IF present
    THEN /\ housekeeping' = UpdateOne(housekeeping, Exact("name", d["name"]),
                                      [value |-> d["value"]])
         /\ nextid' = nextid
         /\ ret' = Result("hkparameter_add", Pair(d["name"], Bool(FALSE)))
    ELSE /\ CanInsert
         /\ housekeeping' = InsertOne(housekeeping,
                                      [name |-> d["name"], value |-> d["value"]], NewId("housekeeping"))
         /\ nextid' = Bump("housekeeping")
         /\ ret' = Result("hkparameter_add", Pair(d["name"], Bool(TRUE)))

\* an order_update that also resets the identifiers of the order
order_update_rewrites(d) ==
    /\ orders' = UpdateOne(orders, Exact("name", d["name"]), [identifiers |-> EmptyStr])
    /\ nextid' = nextid
    /\ ret' = Result("order_update", None)

\* order_update(data_dic): _status_search returns a 2-tuple, which is always
\* true, and dict_from_row(status) calls status.keys(): AttributeError leaves
\* the method.  Without 'status' the KeyError of data_dic['status'] is raised
\* inside the try block and logged.  update_one is never executed.
order_update(d) ==
    LET status_ == IF Has(d, "status") THEN status_search("name", d["status"]) ELSE <<>>
    IN /\ orders' = orders
       /\ nextid' = nextid
       /\ ret' = Result("order_update",
                        IF Has(d, "status") /\ Len(status_) > 0
                        THEN Raise("AttributeError") ELSE None)

\* authorization_update(data_dic)
authorization_update(d) ==
    LET lookup == authorization_search("name", d["name"])
        row == dict_from_row(lookup[1])
        d1 == SetKey(d, "status", row["status_id"])
        d2 == SetDefault(SetDefault(d1, "token", Get(row, "token")),
                         "expires", Get(row, "expires"))
        written == UpdateOne(authorization, Exact("name", d["name"]),
                             [status_id |-> d2["status"], token |-> d2["token"],
                              expires |-> d2["expires"]])
        updated_auth == FindOne(written, Exact("name", d["name"]))
    IN /\ nextid' = nextid
       /\ IF lookup = <<>> \/ ~Has(lookup[1], "status_id")
          THEN /\ authorization' = authorization
               /\ ret' = Result("authorization_update", None)
          ELSE IF Has(d, "status")
          THEN \* dict_from_row(status) on the tuple of _status_search
               /\ authorization' = authorization
               /\ ret' = Result("authorization_update", Raise("AttributeError"))
          ELSE /\ authorization' = written
               /\ ret' = Result("authorization_update",
                                IF updated_auth # <<>>
                                THEN OidStr(updated_auth[1]["_id"][2]) ELSE None)

\* challenge_update(data_dic)
challenge_update(d) ==
    LET lookup == challenge_search("name", d["name"])
        row == dict_from_row(lookup[1])
        complete ==
            /\ Has(row, "status__id")
            /\ Has(d, "keyauthorization") \/ Has(row, "keyauthorization")
            /\ Has(d, "validated") \/ Has(row, "validated")
    IN /\ nextid' = nextid
       /\ IF lookup = <<>>
          THEN /\ challenge' = challenge
               /\ ret' = Result("challenge_update", None)
          ELSE IF Has(d, "status")
          THEN /\ challenge' = challenge
               /\ ret' = Result("challenge_update", Raise("AttributeError"))
          ELSE IF ~complete
          THEN /\ challenge' = challenge
               /\ ret' = Result("challenge_update", Raise("KeyError"))
          ELSE /\ challenge' = UpdateOne(challenge, Exact("name", d["name"]),
                     [status_id |-> row["status__id"],
                      keyauthorization |-> GetOr(d, "keyauthorization", row["keyauthorization"]),
                      validated |-> GetOr(d, "validated", row["validated"])])
               /\ ret' = Result("challenge_update", None)

\* account_update(data_dic): exact-name find_one, then '$set' of alg, contact
\* and jwk with the stored values as defaults; returns the ObjectId or None
account_update(d) ==
    LET lookup == FindOne(account, Exact("name", d["name"])) IN
    /\ nextid' = nextid
    /\ IF lookup # <<>>
       THEN LET d1 == SetDefault(SetDefault(SetDefault(d,
                          "alg", lookup[1]["alg"]),
                          "contact", lookup[1]["contact"]),
                          "jwk", lookup[1]["jwk"])
            IN /\ account' = UpdateOne(account, Exact("name", d["name"]),
                                 [alg |-> d1["alg"], contact |-> d1["contact"],
                                  jwk |-> d1["jwk"]])
               /\ ret' = Result("account_update", lookup[1]["_id"])
       ELSE /\ account' = account
            /\ ret' = Result("account_update", None)

\* account_delete(aname): delete_one on the exact name; deleted_count > 0
account_delete(aname) ==
    /\ account' = DeleteOne(account, Exact("name", aname))
    /\ nextid' = nextid
    /\ ret' = Result("account_delete",
                     Bool(CountDocuments(account, Exact("name", aname)) > 0))

\* cliaccount_delete(data_dic): regex search, then delete_one on the exact name
cliaccount_delete(d) ==
    LET exists == cliaccount_search("name", d["name"]) IN
    /\ nextid' = nextid
    /\ IF exists # <<>>
       THEN /\ cliaccount' = DeleteOne(cliaccount, Exact("name", d["name"]))
            /\ ret' = Result("cliaccount_delete",
                        Bool(CountDocuments(cliaccount, Exact("name", d["name"])) > 0))
       ELSE /\ cliaccount' = cliaccount
            /\ ret' = Result("cliaccount_delete", Bool(FALSE))

\* certificate_delete(mkey, string): delete_one on db['certificate']
certificate_delete(mkey, string) ==
    /\ certificate' = DeleteOne(certificate, Exact(mkey, string))
    /\ nextid' = nextid
    /\ ret' = Result("certificate_delete",
                     Bool(CountDocuments(certificate, Exact(mkey, string)) > 0))


\* account_lookup(column, string) against a store that answers (up) or raises:
\* the except branch returns {} as well
account_lookup_try(up, column, string) ==
    Dict(IF up THEN account_lookup(column, string) ELSE <<>>)

\* authorization_lookup(column, string) against a store that answers or
\* raises: _authorization_search catches the exception and returns []
authorization_lookup_try(up, column, string) ==
    List(IF up THEN authorization_search(column, string) ELSE <<>>)


\* find_one(filter, projection): the listed fields that the document has,
\* and its _id
Project(d, vlist) == [k \in DOMAIN d \cap (vlist \cup {"_id"}) |-> d[k]]

\* vlist default of order_lookup
order_vlist == {"notbefore", "notafter", "identifiers", "expires", "status__name"}

\* order_lookup(column, string, vlist): {field: lookup[field] for field in
\* vlist} is built outside the try block, so a projected field that the stored
\* document lacks raises KeyError
order_lookup(column, string, vlist) ==
    LET found == FindOne(orders, Regex(column, string)) IN
    IF found = <<>> THEN Dict(<<>>)
    ELSE LET lookup == SetDefault(SetDefault(Project(found[1], vlist),
                                  "notbefore", Num(0)), "notafter", Num(0))
         IN IF vlist \ DOMAIN lookup # {} THEN Raise("KeyError")
            ELSE LET result == [field \in vlist |-> lookup[field]]
                 IN Dict(<<IF "status__name" \in vlist
                           THEN SetKey(result, "status", Get(lookup, "status__name"))
                           ELSE result>>)

\* vlist default of certificate_lookup and certificates_search
certificate_vlist == {"name", "csr", "cert", "order__name"}

\* certificate_lookup(column, string, vlist): reads db['certificate']
certificate_lookup(column, string, vlist) ==
    LET found == FindOne(certificate, Regex(column, string)) IN
    IF found = <<>> THEN Dict(<<>>)
    ELSE LET lookup == Project(found[1], vlist)
         IN IF vlist \ DOMAIN lookup # {} THEN Raise("KeyError")
            ELSE Dict(<<[field \in vlist |-> lookup[field]]>>)

\* one row of certificates_search: the '$project' stage maps each field of
\* vlist to its path ('order__name' is 'order.name'); a missing path yields no
\* field, and _id is kept
CertificateRow(d, order, vlist) ==
    LET own == Project(d, vlist) IN
    IF "order__name" \in vlist /\ Has(order, "name")
    THEN SetKey(own, "order__name", order["name"])
    ELSE own

\* certificates_search(column, string, vlist): aggregate on db['certificate'];
\* each '$unwind' drops the rows whose join through order_id and account_id
\* found no parent
certificates_search(column, string, vlist) ==
    LET sel == SelectSeq(certificate, LAMBDA d :
                   /\ JoinById(orders, d, "order_id") # <<>>
                   /\ JoinById(account, JoinById(orders, d, "order_id")[1],
                               "account_id") # <<>>
                   /\ RegexMatch(d, column, string))
    IN List([i \in 1..Len(sel) |->
                CertificateRow(sel[i], JoinById(orders, sel[i], "order_id")[1], vlist)])


\* the requests of an update at which the store may raise
WriteFails == {"find", "write"}

\* the account collection after the update_one of account_update(d)
account_written(d) ==
    LET lookup == FindOne(account, Exact("name", d["name"])) IN
    IF lookup = <<>> THEN account
    ELSE UpdateOne(account, Exact("name", d["name"]),
                   [alg |-> GetOr(d, "alg", lookup[1]["alg"]),
                    contact |-> GetOr(d, "contact", lookup[1]["contact"]),
                    jwk |-> GetOr(d, "jwk", lookup[1]["jwk"])])

\* an account_update that sets 'alg' and the other fields in two requests,
\* the second of which fails
account_update_halves(d, fail) ==
    LET lookup == FindOne(account, Exact("name", d["name"])) IN
    /\ nextid' = nextid
    /\ account' = IF fail = "write" /\ lookup # <<>>
                  THEN UpdateOne(account, Exact("name", d["name"]),
                                 [alg |-> GetOr(d, "alg", lookup[1]["alg"])])
                  ELSE account
    /\ ret' = Result("account_update", Raise("PyMongoError"))

\* account_update(data_dic) when the store raises at find_one or at
\* update_one: both run outside any try block, the exception leaves the
\* method; update_one is the only write and is issued only for a match
account_update_fails(d, fail) ==
    LET lookup == FindOne(account, Exact("name", d["name"])) IN
    /\ nextid' = nextid
    /\ account' = account
    /\ ret' = Result("account_update",
                     IF fail = "write" /\ lookup = <<>>
                     THEN None ELSE Raise("PyMongoError"))

\* certificate_add(data_dic) when the store raises at the single write of
\* _certificate_update or _certificate_insert: the exception is caught and
\* None is returned
certificate_add_fails(d) ==
    /\ Certificate' = Certificate
    /\ nextid' = nextid
    /\ ret' = Result("certificate_add", None)


\* '$lookup' followed by '$unwind' without preserveNullAndEmptyArrays: the
\* documents of coll whose foreignField equals the value v of the local
\* field; a missing local field is null and equals no stored value
Joined(coll, foreignField, v) ==
    IF v = <<>> THEN {}
    ELSE {i \in 1..Len(coll) : Has(coll[i], foreignField)
                               /\ coll[i][foreignField] = v[1]}

\* the value of field k of document d as <<v>>, <<>> when d has no such field
Field(d, k) == IF Has(d, k) THEN <<d[k]>> ELSE <<>>

\* vlist of accountlist_get, abridged: the top-level names an account document
\* can hold and 'order__...' names, none of which is a field of the joined
\* document
accountlist_vlist ==
    {"id", "name", "eab_kid", "contact", "created_at", "jwk", "alg",
     "order__id", "order__name", "order__status__id", "order__status__name",
     "order__authorization__id", "order__authorization__name",
     "order__authorization__challenge__id", "order__authorization__challenge__name"}

\* the (order, authorization, challenge) chains of account a that survive
\* every '$unwind' of accountlist_get
AccountChains(a) ==
    {t \in (1..Len(orders)) \X (1..Len(authorization)) \X (1..Len(challenge)) :
        /\ t[1] \in Joined(orders, "account_id", Field(a, "_id"))
        /\ t[2] \in Joined(authorization, "order_id", Field(orders[t[1]], "_id"))
        /\ t[3] \in Joined(challenge, "authorization_id", Field(authorization[t[2]], "_id"))
        /\ Joined(status, "_id", Field(orders[t[1]], "status_id")) # {}
        /\ Joined(status, "_id", Field(authorization[t[2]], "status_id")) # {}
        /\ Joined(status, "_id", Field(challenge[t[3]], "status_id")) # {}}

RECURSIVE Repeat(_, _)
Repeat(x, n) == IF n = 0 THEN <<>> ELSE <<x>> \o Repeat(x, n - 1)

RECURSIVE AccountRows(_)
AccountRows(i) ==
    IF i > Len(account) THEN <<>>
    ELSE Repeat(Project(account[i], accountlist_vlist),
                Cardinality(AccountChains(account[i]))) \o AccountRows(i + 1)

\* accountlist_get(): (vlist, rows); '$project' {field: 1} keeps '_id' and
\* the named fields the joined document holds at top level
accountlist_get == Pair(accountlist_vlist, List(AccountRows(1)))

\* vlist of certificatelist_get, abridged
certificatelist_vlist ==
    {"id", "name", "cert_raw", "csr", "poll_identifier",
     "order__id", "order__name", "order__status__name",
     "order__account__name", "order__account__contact"}

\* the document field.replace('__', '.') resolves in: the certificate, its
\* order or the order's account, with the name of the field in it
CertPath(c, o, a, field) ==
    CASE field \in {"order__id", "order__name"} ->
            Field(o, IF field = "order__id" THEN "id" ELSE "name")
      [] field = "order__status__name" -> <<>>
      [] field \in {"order__account__name", "order__account__contact"} ->
            Field(a, IF field = "order__account__name" THEN "name" ELSE "contact")
      [] OTHER -> Field(c, field)

\* '$project' {field: '$path'}: '_id' and every field whose path resolves
CertRow(c, o, a) ==
    LET present == {f \in certificatelist_vlist : CertPath(c, o, a, f) # <<>>}
    IN [k \in present \cup {"_id"} |->
           IF k = "_id" THEN c["_id"] ELSE CertPath(c, o, a, k)[1]]

RECURSIVE CertRows(_)
CertRows(i) ==
    IF i > Len(certificate) THEN <<>>
    ELSE LET c == certificate[i]
             os == Joined(orders, "_id", Field(c, "order_id"))
             o == orders[MinOf(os)]
             as == Joined(account, "_id", Field(o, "account_id"))
         IN (IF os # {} /\ as # {}
             THEN <<CertRow(c, o, account[MinOf(as)])>> ELSE <<>>)
            \o CertRows(i + 1)

\* certificatelist_get(): (vlist, rows) from db['certificate']
certificatelist_get == Pair(certificatelist_vlist, List(CertRows(1)))


\* challenges_search(column, string, vlist): the aggregation result is bound
\* to challenge_list, or the exception is logged, and the method ends without
\* a return statement: the caller receives None for every store content
challenges_search(column, string, vlist) == None


\* _certificate_account_check(account_name, certificate_dic, order_dic)
certificate_account_check_private(account_name, certificate_dic, order_dic) ==
    IF account_name # EmptyStr
    THEN IF Get(order_dic, "account__name") = account_name
         THEN Get(certificate_dic, "order__name") ELSE None
    ELSE Get(certificate_dic, "order__name")

\* a certificate_account_check that returns the order of the certificate
\* stored in db['Certificate'] whatever the account name is
certificate_account_check_open(account_name, cert_raw) ==
    LET found == FindOne(Certificate, Regex("cert_raw", cert_raw))
        order == IF found = <<>> THEN <<>> ELSE JoinById(orders, found[1], "order")
    IN IF order = <<>> THEN None ELSE order[1]["name"]

\* certificate_account_check(account_name, certificate): the parameter
\* 'certificate' is cert_raw here; certificate_lookup
\* reads db['certificate'] and order_lookup builds its result outside a try
\* block; the KeyError of either leaves the method
certificate_account_check(account_name, cert_raw) ==
    LET certificate_dic ==
            certificate_lookup("cert_raw", cert_raw, {"name", "order__name"})
    IN IF IsRaise(certificate_dic) THEN certificate_dic
       ELSE IF certificate_dic[2] = <<>> THEN None
       ELSE LET order_dic == order_lookup("name", certificate_dic[2][1]["order__name"],
                                          {"name", "account__name"})
            IN IF IsRaise(order_dic) THEN order_dic
               ELSE IF order_dic[2] = <<>> THEN None
               ELSE certificate_account_check_private(account_name,
                        certificate_dic[2][1], order_dic[2][1])


----------------------------------------------------------------------------
(* Schema initialisation and update *)

\* update_one({'name': n}, {'$setOnInsert': {'name': n}}, upsert=True) for each
\* name of a list, as [coll, id]
RECURSIVE UpsertNames(_, _, _)
UpsertNames(coll, names, id) ==
    IF names = <<>> THEN [coll |-> coll, id |-> id]
    ELSE IF Matching(coll, Exact("name", Str(Head(names)))) # {}
         THEN UpsertNames(coll, Tail(names), id)
         ELSE UpsertNames(InsertOne(coll, [name |-> Str(Head(names))], <<"status", id>>),
                          Tail(names), id + 1)

\* _db_update_status
db_update_status(coll, id) == UpsertNames(coll, new_statuses, id)

\* _db_update_account: update_many({}, {'$set': {'eab_kid': ''}}, upsert=True)
\* inserts {'eab_kid': ''} when the collection holds no document
db_update_account(coll, id) ==
    IF coll = <<>>
    THEN [coll |-> InsertOne(coll, [eab_kid |-> EmptyStr], <<"account", id>>),
          id |-> id + 1]
    ELSE [coll |-> UpdateMany(coll, All, [eab_kid |-> EmptyStr]), id |-> id]

\* the key of the schema version in the housekeeping collection
DbVersionName == Str(<<"d","b","v","e","r","s","i","o","n">>)

\* the upsert of the dbversion record
db_update_version(coll, id) ==
    IF Matching(coll, Exact("name", DbVersionName)) # {}
    THEN [coll |-> UpdateOne(coll, Exact("name", DbVersionName),
                             [value |-> dbversion]), id |-> id]
    ELSE [coll |-> InsertOne(coll, [name |-> DbVersionName, value |-> dbversion],
                             <<"housekeeping", id>>),
          id |-> id + 1]

\* db_update()
db_update ==
    LET s == db_update_status(status, nextid["status"])
        a == db_update_account(account, nextid["account"])
        h == db_update_version(housekeeping, nextid["housekeeping"])
    IN /\ status' = s.coll
       /\ account' = a.coll
       /\ housekeeping' = h.coll
       /\ nextid' = [nextid EXCEPT !["status"] = s.id, !["account"] = a.id,
                                   !["housekeeping"] = h.id]
       /\ ret' = Result("db_update", None)

\* _db_create(): self.db_name is never assigned, so the first statement raises
\* AttributeError before any write
db_create ==
    /\ nextid' = nextid
    /\ ret' = Result("db_create", Raise("AttributeError"))

\* the steps of db_update whose request to the store may raise
FailSteps == {"status", "account", "version"}

\* a db_update that writes the version although a step has failed
db_update_fails_writes(fail) ==
    LET h == db_update_version(housekeeping, nextid["housekeeping"])
    IN /\ status' = status
       /\ account' = account
       /\ housekeeping' = h.coll
       /\ nextid' = [nextid EXCEPT !["housekeeping"] = h.id]
       /\ ret' = Result("db_update",
                        IF fail = "version" THEN None ELSE Raise("PyMongoError"))

\* db_update() when the store raises at step fail: the per-entity steps run
\* outside any try block, so their exception leaves db_update before the
\* version is written; the exception of the version upsert is caught and
\* logged, and db_update ends normally
db_update_fails(fail) ==
    LET s == IF fail = "status"
             THEN [coll |-> status, id |-> nextid["status"]]
             ELSE db_update_status(status, nextid["status"])
        a == IF fail \in {"status", "account"}
             THEN [coll |-> account, id |-> nextid["account"]]
             ELSE db_update_account(account, nextid["account"])
    IN /\ status' = s.coll
       /\ account' = a.coll
       /\ housekeeping' = housekeeping
       /\ nextid' = [nextid EXCEPT !["status"] = s.id, !["account"] = a.id]
       /\ ret' = Result("db_update",
                        IF fail = "version" THEN None ELSE Raise("PyMongoError"))

\* the second component of dbversion_get's result
ScriptName == Str(<<"t","o","o","l","s">>)

\* dbversion_get(): (db_version, 'tools/db_update.py'); db_version is None
\* when no dbversion record exists, when the record has no 'value' or when
\* find_one raises
dbversion_get(up) ==
    LET result == IF up THEN FindOne(housekeeping, Exact("name", DbVersionName))
                  ELSE <<>>
        db_version == IF result # <<>> /\ Has(result[1], "value")
                      THEN result[1]["value"] ELSE None
    IN Pair(db_version, ScriptName)

\* a directory_get that reports 'OK' whatever the persisted version is
directory_get_ok(db_check, up) ==
    Dict(<< [meta |-> IF db_check
                      THEN [home |-> Str(<<"h">>), db_check |-> Str(<<"O","K">>)]
                      ELSE [home |-> Str(<<"h">>)]] >>)

\* Directory.directory_get(): the directory response; with db_check enabled
\* its 'meta' carries 'db_check', 'OK' when the version dbversion_get returns
\* equals Directory.dbversion and 'NOK' otherwise
directory_get(db_check, up) ==
    LET version == dbversion_get(up)[2][1]
        meta == [home |-> Str(<<"h">>)]
    IN Dict(<< [meta |-> IF db_check
                         THEN SetKey(meta, "db_check",
                                     IF version = dbversion
                                     THEN Str(<<"O","K">>) ELSE Str(<<"N","O","K">>))
                         ELSE meta] >>)



----------------------------------------------------------------------------
(* Nonce store *)

\* nonce_add(nonce): insert_one, no uniqueness check
nonce_add(n) == Append(nonce, [nonce |-> n])

\* nonce_check(nonce): count_documents(...) > 0
nonce_check(n) == CountDocuments(nonce, Exact("nonce", n)) > 0

\* a nonce_delete that removes nothing
nonce_delete_keep(n) == nonce

\* nonce_delete(nonce): delete_one removes the first matching document
nonce_delete(n) == DeleteOne(nonce, Exact("nonce", n))

NonceSet == {Str(<<"n", "1">>), Str(<<"n", "2">>)}

NonceAdd ==
    \E n \in NonceSet :
        /\ Len(nlog) < MaxNonceOps
        /\ nonce' = nonce_add(n)
        /\ nlog' = Append(nlog, [op |-> "add", n |-> n, res |-> TRUE])
        /\ UNCHANGED <<dbvars, nextid, ret, pc, seen, toolvars>>

NonceCheck ==
    \E n \in NonceSet :
        /\ Len(nlog) < MaxNonceOps
        /\ nlog' = Append(nlog, [op |-> "check", n |-> n, res |-> nonce_check(n)])
        /\ UNCHANGED <<dbvars, nextid, ret, nonce, pc, seen, toolvars>>

NonceDelete ==
    \E n \in NonceSet :
        /\ Len(nlog) < MaxNonceOps
        /\ nonce' = nonce_delete(n)
        /\ nlog' = Append(nlog, [op |-> "delete", n |-> n, res |-> TRUE])
        /\ UNCHANGED <<dbvars, nextid, ret, pc, seen, toolvars>>

\* Two callers validate nonces concurrently.  A validation is nonce_check
\* followed by nonce_delete, two separate requests to the store; each request
\* is atomic, the pair is not.
CallerCheck(c) ==
    \E n \in NonceSet :
        /\ pc[c] = "idle"
        /\ seen' = [seen EXCEPT ![c] = [n |-> n, ok |-> nonce_check(n)]]
        /\ pc' = [pc EXCEPT ![c] = "checked"]
        /\ UNCHANGED <<dbvars, nextid, ret, nonce, nlog, toolvars>>

CallerDelete(c) ==
    /\ pc[c] = "checked"
    /\ nonce' = nonce_delete(seen[c].n)
    /\ pc' = [pc EXCEPT ![c] = "done"]
    /\ UNCHANGED <<dbvars, nextid, ret, nlog, seen, toolvars>>

\* Two callers update accounts concurrently.  account_update is find_one
\* followed by update_one, two separate requests to the store; each request
\* is atomic, the pair is not.  Caller 1 supplies only 'contact', caller 2
\* only 'alg'.
CallerFields(c, n) ==
    IF c = 1 THEN [name |-> n, contact |-> Str(<<"d">>)]
    ELSE [name |-> n, alg |-> Str(<<"E", "S">>)]

\* find_one and the setdefault calls of account_update; without a match the
\* method returns None
CallerFind(c) ==
    \E n \in {NameA} :
        LET d == CallerFields(c, Str(n))
            lookup == FindOne(account, Exact("name", d["name"]))
        IN /\ pc[c] = "idle"
           /\ IF lookup # <<>>
              THEN /\ seen' = [seen EXCEPT ![c] =
                                 [n |-> SetDefault(SetDefault(SetDefault(d,
                                            "alg", lookup[1]["alg"]),
                                            "contact", lookup[1]["contact"]),
                                            "jwk", lookup[1]["jwk"]),
                                  ok |-> TRUE, id |-> lookup[1]["_id"]]]
                   /\ pc' = [pc EXCEPT ![c] = "found"]
                   /\ ret' = ret
              ELSE /\ seen' = seen
                   /\ pc' = pc
                   /\ ret' = Result("account_update", None)
           /\ UNCHANGED <<dbvars, nextid, nonce, nlog, toolvars>>

\* update_one of account_update with the data_dic completed at find_one
CallerWrite(c) ==
    /\ pc[c] = "found"
    /\ account' = UpdateOne(account, Exact("name", seen[c].n["name"]),
                            [alg |-> seen[c].n["alg"], contact |-> seen[c].n["contact"],
                             jwk |-> seen[c].n["jwk"]])
    /\ pc' = [pc EXCEPT ![c] = "done"]
    /\ ret' = Result("account_update", seen[c].id)
    /\ UNCHANGED <<orders, authorization, challenge, Certificate, certificate,
                   status, housekeeping, cahandler, cliaccount,
                   nextid, nonce, nlog, seen, toolvars>>


\* Two callers register accounts concurrently.  account_add is find_one on
\* the jwk followed by update_one or insert_one, two separate requests to the
\* store; each request is atomic, the pair is not.
AdderFind(c) ==
    \E d \in {[name |-> Str(n), jwk |-> Str(k), alg |-> Str(<<"R", "S">>),
               contact |-> Str(<<"c">>)] : n \in NameSet, k \in JwkSet} :
        LET d1 == SetDefault(d, "eab_kid", EmptyStr)
            existing_account == FindOne(account, Exact("jwk", d1["jwk"]))
        IN /\ pc[c] = "idle"
           /\ seen' = [seen EXCEPT ![c] = [n |-> d1, ok |-> existing_account # <<>>,
                                           found |-> existing_account]]
           /\ pc' = [pc EXCEPT ![c] = "looked"]
           /\ UNCHANGED <<dbvars, nextid, ret, nonce, nlog, toolvars>>

\* the write of account_add chosen by the outcome of its find_one
AdderWrite(c) ==
    /\ pc[c] = "looked"
    /\ IF seen[c].ok
       THEN /\ account' = UpdateOne(account, Exact("jwk", seen[c].n["jwk"]),
                                    [alg |-> seen[c].n["alg"],
                                     contact |-> seen[c].n["contact"]])
            /\ nextid' = nextid
            /\ ret' = Result("account_add",
                             Pair(seen[c].found[1]["name"], Bool(FALSE)))
       ELSE /\ account' = InsertOne(account, seen[c].n, NewId("account"))
            /\ nextid' = Bump("account")
            /\ ret' = Result("account_add", Pair(seen[c].n["name"], Bool(TRUE)))
    /\ pc' = [pc EXCEPT ![c] = "added"]
    /\ UNCHANGED <<orders, authorization, challenge, Certificate, certificate,
                   status, housekeeping, cahandler, cliaccount, nonce, nlog, seen, toolvars>>


----------------------------------------------------------------------------
(* Inputs of the entity store operations *)

\* d, and d extended with key k for each value of vs
WithOpt(d, k, vs) == {d} \cup {SetKey(d, k, v) : v \in vs}

Names == {Str(n) : n \in NameSet}

AccountInputs ==
    {[name |-> n, jwk |-> Str(k), alg |-> Str(<<"R", "S">>), contact |-> Str(<<"c">>)] :
        n \in Names, k \in JwkSet}

\* the order module passes 'status': 2 with every new order
OrderInputs ==
    {[name |-> n, account |-> a, status |-> Num(2)] : n \in Names, a \in Names}

\* the parent is given by name, or as the identity order_add returned
OrderRefs == Names \cup {OidStr(orders[i]["_id"][2]) : i \in 1..Len(orders)}

AuthorizationInputs ==
    UNION {WithOpt([name |-> n, order |-> o], "status",
                   IF status = <<>> THEN {} ELSE {status[1]["_id"]}) :
            n \in Names, o \in OrderRefs}

ChallengeInputs == {[name |-> n, authorization |-> a] : n \in Names, a \in Names}

CertificateInputs == {[name |-> n, order |-> o] : n \in Names, o \in Names}

UpdateInputs ==
    UNION {WithOpt([name |-> n], "status", {Str(status_names[5]), Str(BogusStatus)}) :
            n \in Names}

CliaccountInputs == {[name |-> n] : n \in Names}

CahandlerInputs == {[name |-> n, value1 |-> Str(<<"v">>)] : n \in Names}

HkparameterInputs == {[name |-> n, value |-> Str(<<"v">>)] : n \in Names}

\* a later certificate_add for a name: the fields the certificate module
\* supplies once it has the enrollment result, the error, or the stored csr
CertificateMergeInputs ==
    {SetFields([name |-> n], f) :
        n \in Names,
        f \in {[csr |-> Str(<<"r">>)],
               [cert |-> Str(<<"c">>)],
               [error |-> Str(<<"e">>), cert |-> Str(<<"c">>)]}}

\* cliaccount_add with one of the optional fields of a CLI account
CliaccountMergeInputs ==
    {SetFields([name |-> n], f) :
        n \in Names,
        f \in {[contact |-> Str(<<"c">>)],
               [reportadmin |-> Bool(TRUE)]}}

\* account_update with a new contact
AccountUpdateInputs == {[name |-> n, contact |-> Str(<<"d">>)] : n \in Names}


\* a complete order record as the order module builds it
OrderValidInputs ==
    {[name |-> n, account |-> a, status |-> Num(2), notbefore |-> Num(1),
      notafter |-> Num(2), identifiers |-> Str(<<"i">>), expires |-> Num(3)] :
        n \in Names, a \in Names}


\* a version persisted by an earlier release
StaleVersion == Str(<<"d","b","u">>)

VersionInputs == {[name |-> DbVersionName, value |-> StaleVersion]}


(* Command-line client (tools/a2c_cli.py) *)

\* str.startswith
StartsWith(s, p) == Len(s) >= Len(p) /\ SubSeq(s, 1, Len(p)) = p

\* str.rstrip(): trailing blanks removed
RECURSIVE RStrip(_)
RStrip(s) == IF s # <<>> /\ s[Len(s)] = " " THEN RStrip(SubSeq(s, 1, Len(s) - 1)) ELSE s

\* str.split(' '): the pieces between single blanks, empty pieces included
RECURSIVE SplitFrom(_, _)
SplitFrom(s, piece) ==
    IF s = <<>> THEN <<piece>>
    ELSE IF Head(s) = " " THEN <<piece>> \o SplitFrom(Tail(s), <<>>)
    ELSE SplitFrom(Tail(s), Append(piece, Head(s)))

Split(s) == SplitFrom(s, <<>>)

\* the schemes is_url accepts: '(?:http|ftp)s?://', case-insensitive
UrlSchemes == {<<"h", "t", "t", "p", ":", "/", "/">>, <<"h", "t", "t", "p", "s", ":", "/", "/">>, <<"f", "t", "p", ":", "/", "/">>, <<"f", "t", "p", "s", ":", "/", "/">>}

\* the hosts of the URLs the commands of the model carry; of the regex of
\* is_url they take the alternative 'localhost', with no port and no path
UrlHosts == {<<"l", "o", "c", "a", "l", "h", "o", "s", "t">>}

\* is_url(string): a scheme followed by a host and nothing else; the URLs of
\* the model are lower-case, on which re.IGNORECASE changes nothing
is_url(string) ==
    \E sch \in UrlSchemes, host \in UrlHosts : string = sch \o host

\* the values of CommandLineInterface.status
ServerMissing == "server missing"
Configured == "configured"

\* CommandLineInterface.__init__; out is what the last input printed and
\* alive is FALSE once an exception has left start()
CliInit == [status |-> ServerMissing, server |-> None, out |-> "none", alive |-> TRUE]

\* _server_set(server): the unpacking of split(' ') raises ValueError unless
\* it yields exactly two pieces; nothing catches it
server_set(c, server) ==
    LET parts == Split(server) IN
    IF Len(parts) # 2 THEN [c EXCEPT !.out = "ValueError", !.alive = FALSE]
    ELSE IF is_url(parts[2])
    THEN [c EXCEPT !.server = Str(parts[2]), !.status = Configured, !.out = "none"]
    ELSE [c EXCEPT !.out = "not a valid url"]

\* _command_check(command)
command_check(c, command) ==
    IF command \in {<<"h", "e", "l", "p">>, <<"H">>} THEN [c EXCEPT !.out = "help"]
    ELSE IF StartsWith(command, <<"s", "e", "r", "v", "e", "r">>) THEN server_set(c, command)
    ELSE IF c.status = Configured
    THEN IF StartsWith(command, <<"c", "e", "r", "t", "i", "f", "i", "c", "a", "t", "e", " ", "s", "e", "a", "r", "c", "h">>) THEN [c EXCEPT !.out = "jupp"]
         ELSE IF command # <<>> THEN [c EXCEPT !.out = "unknown command"]
         ELSE [c EXCEPT !.out = "none"]
    ELSE [c EXCEPT !.out = "set server first"]

\* _exec_cmd(cmdinput)
exec_cmd(c, cmdinput) ==
    LET stripped == RStrip(cmdinput) IN
    IF ~(Len(stripped) > 1) THEN [c EXCEPT !.out = "none"]
    ELSE IF StartsWith(stripped, <<"/">>) THEN command_check(c, Tail(stripped))
    ELSE [c EXCEPT !.out = "enter a valid command"]

\* the lines typed at the prompt
Url == <<"h", "t", "t", "p", ":", "/", "/", "l", "o", "c", "a", "l", "h", "o", "s", "t">>
UrlFtp == <<"f", "t", "p", "s", ":", "/", "/", "l", "o", "c", "a", "l", "h", "o", "s", "t">>
ServerCmd == <<"/", "s", "e", "r", "v", "e", "r", " ">>

CliInputs ==
    {<<>>, <<"/">>, <<"x">>,
     <<"h", "e", "l", "p">>, <<"/", "h", "e", "l", "p">>, <<"/", "H">>,
     ServerCmd \o Url, ServerCmd \o UrlFtp,
     ServerCmd \o <<"l", "o", "c", "a", "l", "h", "o", "s", "t">>,
     <<"/", "s", "e", "r", "v", "e", "r">>,
     ServerCmd \o Url \o <<" ", "x">>,
     <<"/", "s", "e", "r", "v", "e", "r", "x", " ">> \o Url,
     <<"s", "e", "r", "v", "e", "r", " ">> \o Url,
     <<"/", "c", "e", "r", "t", "i", "f", "i", "c", "a", "t", "e", " ", "s", "e", "a", "r", "c", "h">>, <<"/", "f", "o", "o">>}

\* one pass of the loop of start(): a line is read and executed
CliInput ==
    \E cmdinput \in CliInputs :
        /\ cli.alive
        /\ cli' = exec_cmd(cli, cmdinput)
        /\ UNCHANGED <<dbvars, nextid, ret, noncevars, ca>>


(* CA handler (acme_srv/certsecure_handler.py) *)

\* the CSRs handed to enroll: an empty one and a non-empty one
Csrs == {EmptyStr, Str(<<"c">>)}

\* no enroll call in progress
CaInit == [pc |-> "idle", csr |-> None, details |-> None, taskid |-> None,
           flag |-> FALSE, cert_raw |-> None, exc |-> "none", result |-> None]

\* get_cert_details(kid): (ca, template) of the answer; (None, None) when the
\* request fails or the answer cannot be parsed
CertDetails == {Pair(Str(<<"a">>), Str(<<"t">>)), Pair(None, None)}

\* what requests.post does with the certificate request: it raises, or it
\* returns a response that is falsy (an error status), a response that is
\* truthy and has no subscript (requests.Response), or a response that is
\* truthy and has a 'TaskID' item
RequestOutcomes == {"raises", "falsy", "response", "taskid"}

\* what one poll of the get_cert endpoint does: the post raises, the status
\* is not 200, the status is 200 and the body is not JSON, or the status is
\* 200 and the body carries a certificate or none
PollOutcomes == {"raises", "pending", "badjson", "cert", "nocert"}

\* enroll(csr): the locals are set
EnrollCall ==
    \E csr \in Csrs :
        /\ ca.pc = "idle"
        /\ ca' = [CaInit EXCEPT !.pc = "details", !.csr = csr]
        /\ UNCHANGED <<dbvars, nextid, ret, noncevars, cli>>

\* get_kid, get_cert_details and the test 'if csr:'
EnrollDetails ==
    \E d \in CertDetails :
        /\ ca.pc = "details"
        /\ ca' = [ca EXCEPT !.details = d,
                            !.pc = IF ca.csr # EmptyStr THEN "request" ELSE "header"]
        /\ UNCHANGED <<dbvars, nextid, ret, noncevars, cli>>

\* the certificate request and the read of its task id; 'taskid' is bound only
\* under 'if response:', and its read after the block raises when it is not
EnrollRequest ==
    \E o \in RequestOutcomes :
        /\ ca.pc = "request"
        /\ ca' = CASE o = "raises" -> [ca EXCEPT !.pc = "raised", !.exc = "RequestException"]
                   [] o = "falsy" -> [ca EXCEPT !.pc = "raised", !.exc = "UnboundLocalError"]
                   [] o = "response" -> [ca EXCEPT !.pc = "raised", !.exc = "TypeError"]
                   [] OTHER -> [ca EXCEPT !.pc = "post", !.taskid = Str(<<"1">>), !.flag = TRUE]
        /\ UNCHANGED <<dbvars, nextid, ret, noncevars, cli>>

\* the body of 'while flag:' up to the sleep
EnrollPost ==
    \E o \in PollOutcomes :
        /\ ca.pc = "post"
        /\ ca' = CASE o = "raises" -> [ca EXCEPT !.pc = "raised", !.exc = "RequestException"]
                   [] o = "badjson" -> [ca EXCEPT !.pc = "raised", !.exc = "JSONDecodeError"]
                   [] o = "pending" -> [ca EXCEPT !.pc = "sleep"]
                   [] o = "cert" -> [ca EXCEPT !.pc = "sleep", !.flag = FALSE,
                                               !.cert_raw = Str(<<"r">>)]
                   [] OTHER -> [ca EXCEPT !.pc = "sleep", !.flag = FALSE]
        /\ UNCHANGED <<dbvars, nextid, ret, noncevars, cli>>

\* time.sleep(10) and the test of 'while flag:'
EnrollSleep ==
    /\ ca.pc = "sleep"
    /\ ca' = [ca EXCEPT !.pc = IF ca.flag THEN "post" ELSE "header"]
    /\ UNCHANGED <<dbvars, nextid, ret, noncevars, cli>>

\* header_info_get and the return of (error, cert_bundle, cert_raw, poll_identifier)
EnrollReturn ==
    /\ ca.pc = "header"
    /\ ca' = [ca EXCEPT !.pc = "returned",
                        !.result = <<None, None, ca.cert_raw, None>>]
    /\ UNCHANGED <<dbvars, nextid, ret, noncevars, cli>>

\* the steps of a call of enroll that has begun
EnrollStep ==
    EnrollDetails \/ EnrollRequest \/ EnrollPost \/ EnrollSleep \/ EnrollReturn


----------------------------------------------------------------------------
(* Actions *)

AccountAdd ==
    \E d \in AccountInputs :
        /\ account_add(d)
        /\ UNCHANGED <<orders, authorization, challenge, Certificate, certificate,
                       status, housekeeping, cahandler, cliaccount, noncevars, toolvars>>

OrderAdd ==
    \E d \in OrderInputs :
        /\ order_add(d)
        /\ UNCHANGED <<account, authorization, challenge, Certificate, certificate,
                       status, housekeeping, cahandler, cliaccount, noncevars, toolvars>>

AuthorizationAdd ==
    \E d \in AuthorizationInputs :
        /\ authorization_add(d)
        /\ UNCHANGED <<account, orders, challenge, Certificate, certificate,
                       status, housekeeping, cahandler, cliaccount, noncevars, toolvars>>

ChallengeAdd ==
    \E d \in ChallengeInputs :
        /\ challenge_add(d)
        /\ UNCHANGED <<account, orders, authorization, Certificate, certificate,
                       status, housekeeping, cahandler, cliaccount, noncevars, toolvars>>

CertificateAdd ==
    \E d \in CertificateInputs :
        /\ certificate_add(d)
        /\ UNCHANGED <<account, orders, authorization, challenge, certificate,
                       status, housekeeping, cahandler, cliaccount, noncevars, toolvars>>

CliaccountAdd ==
    \E d \in CliaccountInputs :
        /\ cliaccount_add(d)
        /\ UNCHANGED <<account, orders, authorization, challenge, Certificate,
                       certificate, status, housekeeping, cahandler, noncevars, toolvars>>

CahandlerAdd ==
    \E d \in CahandlerInputs :
        /\ cahandler_add(d)
        /\ UNCHANGED <<account, orders, authorization, challenge, Certificate,
                       certificate, status, housekeeping, cliaccount, noncevars, toolvars>>

HkparameterAdd ==
    \E d \in HkparameterInputs :
        /\ hkparameter_add(d)
        /\ UNCHANGED <<account, orders, authorization, challenge, Certificate,
                       certificate, status, cahandler, cliaccount, noncevars, toolvars>>

OrderUpdate ==
    \E d \in UpdateInputs :
        /\ order_update(d)
        /\ UNCHANGED <<account, authorization, challenge, Certificate, certificate,
                       status, housekeeping, cahandler, cliaccount, noncevars, toolvars>>

AuthorizationUpdate ==
    \E d \in UpdateInputs :
        /\ authorization_update(d)
        /\ UNCHANGED <<account, orders, challenge, Certificate, certificate,
                       status, housekeeping, cahandler, cliaccount, noncevars, toolvars>>

\* a challenge_update that also rewrites the status of every authorization
ChallengeUpdateCascade ==
    \E d \in UpdateInputs :
        /\ challenge_update(d)
        /\ authorization' = UpdateMany(authorization, All, [status |-> Get(d, "status")])
        /\ UNCHANGED <<account, orders, Certificate, certificate,
                       status, housekeeping, cahandler, cliaccount, noncevars, toolvars>>

ChallengeUpdate ==
    \E d \in UpdateInputs :
        /\ challenge_update(d)
        /\ UNCHANGED <<account, orders, authorization, Certificate, certificate,
                       status, housekeeping, cahandler, cliaccount, noncevars, toolvars>>

DbUpdate ==
    /\ db_update
    /\ UNCHANGED <<orders, authorization, challenge, Certificate, certificate,
                   cahandler, cliaccount, noncevars, toolvars>>

DbCreate ==
    /\ db_create
    /\ UNCHANGED <<dbvars, noncevars, toolvars>>

CertificateMerge ==
    \E d \in CertificateMergeInputs :
        /\ certificate_add(d)
        /\ UNCHANGED <<account, orders, authorization, challenge, certificate,
                       status, housekeeping, cahandler, cliaccount, noncevars, toolvars>>

CliaccountMerge ==
    \E d \in CliaccountMergeInputs :
        /\ cliaccount_add(d)
        /\ UNCHANGED <<account, orders, authorization, challenge, Certificate,
                       certificate, status, housekeeping, cahandler, noncevars, toolvars>>


\* the collection's ObjectId serials are not used up
SerialOk(c) == nextid[c] <= MaxSerial

AccountUpdate ==
    \E d \in AccountUpdateInputs :
        /\ account_update(d)
        /\ UNCHANGED <<orders, authorization, challenge, Certificate, certificate,
                       status, housekeeping, cahandler, cliaccount, noncevars, toolvars>>

AccountDelete ==
    \E n \in Names :
        /\ SerialOk("account")
        /\ account_delete(n)
        /\ UNCHANGED <<orders, authorization, challenge, Certificate, certificate,
                       status, housekeeping, cahandler, cliaccount, noncevars, toolvars>>

CliaccountDelete ==
    \E d \in CliaccountInputs :
        /\ SerialOk("cliaccount")
        /\ cliaccount_delete(d)
        /\ UNCHANGED <<account, orders, authorization, challenge, Certificate,
                       certificate, status, housekeeping, cahandler, noncevars, toolvars>>

CertificateDelete ==
    \E n \in Names :
        /\ SerialOk("Certificate")
        /\ certificate_delete("name", n)
        /\ UNCHANGED <<account, orders, authorization, challenge, Certificate,
                       status, housekeeping, cahandler, cliaccount, noncevars, toolvars>>


\* a lookup; the backing store answers the request or fails it
AccountLookup ==
    \E up \in BOOLEAN, n \in Names :
        /\ ret' = Result("account_lookup", account_lookup_try(up, "name", n))
        /\ UNCHANGED <<dbvars, nextid, noncevars, toolvars>>

AuthorizationLookup ==
    \E up \in BOOLEAN, n \in Names :
        /\ ret' = Result("authorization_lookup", authorization_lookup_try(up, "name", n))
        /\ UNCHANGED <<dbvars, nextid, noncevars, toolvars>>


OrderAddValid ==
    \E d \in OrderValidInputs :
        /\ order_add(d)
        /\ UNCHANGED <<account, authorization, challenge, Certificate, certificate,
                       status, housekeeping, cahandler, cliaccount, noncevars, toolvars>>

OrderLookup ==
    \E n \in Names :
        /\ ret' = Result("order_lookup", order_lookup("name", n, order_vlist))
        /\ UNCHANGED <<dbvars, nextid, noncevars, toolvars>>

CertificateLookup ==
    \E n \in Names :
        /\ ret' = Result("certificate_lookup",
                         certificate_lookup("name", n, certificate_vlist))
        /\ UNCHANGED <<dbvars, nextid, noncevars, toolvars>>

CertificatesSearch ==
    \E n \in Names :
        /\ ret' = Result("certificates_search",
                         certificates_search("name", n, certificate_vlist))
        /\ UNCHANGED <<dbvars, nextid, noncevars, toolvars>>



DbUpdateFails ==
    \E fail \in FailSteps :
        /\ db_update_fails(fail)
        /\ UNCHANGED <<orders, authorization, challenge, Certificate, certificate,
                       cahandler, cliaccount, noncevars, toolvars>>

DbversionGet ==
    \E up \in BOOLEAN :
        /\ ret' = Result("dbversion_get", dbversion_get(up))
        /\ UNCHANGED <<dbvars, nextid, noncevars, toolvars>>

DirectoryGet ==
    \E db_check \in BOOLEAN, up \in BOOLEAN :
        /\ ret' = Result("directory_get", directory_get(db_check, up))
        /\ UNCHANGED <<dbvars, nextid, noncevars, toolvars>>

\* hkparameter_add writing the dbversion record
HkparameterAddVersion ==
    \E d \in VersionInputs :
        /\ hkparameter_add(d)
        /\ UNCHANGED <<account, orders, authorization, challenge, Certificate,
                       certificate, status, cahandler, cliaccount, noncevars, toolvars>>


\* account_update with both optional fields supplied
UpdateBothInputs ==
    {[name |-> n, contact |-> Str(<<"d">>), alg |-> Str(<<"E", "S">>)] : n \in Names}

AccountUpdateBoth ==
    \E d \in UpdateBothInputs :
        /\ account_update(d)
        /\ UNCHANGED <<orders, authorization, challenge, Certificate, certificate,
                       status, housekeeping, cahandler, cliaccount, noncevars, toolvars>>

AccountUpdateFails ==
    \E d \in UpdateBothInputs, fail \in WriteFails :
        /\ account_update_fails(d, fail)
        /\ UNCHANGED <<orders, authorization, challenge, Certificate, certificate,
                       status, housekeeping, cahandler, cliaccount, noncevars, toolvars>>

CertificateAddFails ==
    \E d \in CertificateMergeInputs :
        /\ certificate_add_fails(d)
        /\ UNCHANGED <<account, orders, authorization, challenge, certificate,
                       status, housekeeping, cahandler, cliaccount, noncevars, toolvars>>


AccountlistGet ==
    /\ ret' = Result("accountlist_get", accountlist_get)
    /\ UNCHANGED <<dbvars, nextid, noncevars, toolvars>>

CertificatelistGet ==
    /\ ret' = Result("certificatelist_get", certificatelist_get)
    /\ UNCHANGED <<dbvars, nextid, noncevars, toolvars>>


ChallengesSearch ==
    \E n \in Names :
        /\ ret' = Result("challenges_search", challenges_search("name", n, {"name", "type"}))
        /\ UNCHANGED <<dbvars, nextid, noncevars, toolvars>>


\* a certificate as issued: with its order and the raw certificate
CertRaw == Str(<<"c">>)

CertificateRawInputs ==
    {[name |-> n, order |-> o, cert_raw |-> CertRaw] : n \in Names, o \in Names}

CertificateAddRaw ==
    \E d \in CertificateRawInputs :
        /\ certificate_add(d)
        /\ UNCHANGED <<account, orders, authorization, challenge, certificate,
                       status, housekeeping, cahandler, cliaccount, noncevars, toolvars>>

CertificateAccountCheck ==
    \E account_name \in Names \cup {EmptyStr} :
        /\ ret' = Result("certificate_account_check",
                         certificate_account_check(account_name, CertRaw))
        /\ UNCHANGED <<dbvars, nextid, noncevars, toolvars>>


\* account_update on a key change: the new jwk is supplied
AccountRekeyInputs == {[name |-> n, jwk |-> Str(k)] : n \in Names, k \in JwkSet}

AccountRekey ==
    \E d \in AccountRekeyInputs :
        /\ account_update(d)
        /\ UNCHANGED <<orders, authorization, challenge, Certificate, certificate,
                       status, housekeeping, cahandler, cliaccount, noncevars, toolvars>>


----------------------------------------------------------------------------
(* Specifications *)

Callers == {1, 2}

CollectionNames ==
    {"account", "orders", "authorization", "challenge", "Certificate", "certificate",
     "status", "housekeeping", "cahandler", "cliaccount", "nonce"}

\* a store on which neither _db_create nor db_update has run
Init ==
    /\ account = <<>>
    /\ orders = <<>>
    /\ authorization = <<>>
    /\ challenge = <<>>
    /\ Certificate = <<>>
    /\ certificate = <<>>
    /\ status = <<>>
    /\ housekeeping = <<>>
    /\ cahandler = <<>>
    /\ cliaccount = <<>>
    /\ nonce = <<>>
    /\ nextid = [c \in CollectionNames |-> 1]
    /\ ret = Result("init", None)
    /\ nlog = <<>>
    /\ pc = [c \in Callers |-> "idle"]
    /\ seen = [c \in Callers |-> [n |-> None, ok |-> FALSE]]
    /\ cli = CliInit
    /\ ca = CaInit

\* the add operations of the entity stores, on a fresh store
Next ==
    \/ AccountAdd
    \/ OrderAdd
    \/ AuthorizationAdd
    \/ ChallengeAdd
    \/ CertificateAdd
    \/ CliaccountAdd
    \/ CahandlerAdd
    \/ HkparameterAdd

Spec == Init /\ [][Next]_vars

\* the store after db_update has run on a fresh store
InitUpdated ==
    LET s == db_update_status(<<>>, 1)
        a == db_update_account(<<>>, 1)
        h == db_update_version(<<>>, 1)
    IN /\ account = a.coll
       /\ orders = <<>>
       /\ authorization = <<>>
       /\ challenge = <<>>
       /\ Certificate = <<>>
       /\ certificate = <<>>
       /\ status = s.coll
       /\ housekeeping = h.coll
       /\ cahandler = <<>>
       /\ cliaccount = <<>>
       /\ nonce = <<>>
       /\ nextid = [c \in CollectionNames |->
                       CASE c = "status" -> s.id
                         [] c = "account" -> a.id
                         [] c = "housekeeping" -> h.id
                         [] OTHER -> 1]
       /\ ret = Result("init", None)
       /\ nlog = <<>>
       /\ pc = [c \in Callers |-> "idle"]
       /\ seen = [c \in Callers |-> [n |-> None, ok |-> FALSE]]
       /\ cli = CliInit
       /\ ca = CaInit

\* the status-bearing entities: their add and update operations
NextStatus ==
    \/ AccountAdd
    \/ OrderAdd
    \/ AuthorizationAdd
    \/ ChallengeAdd
    \/ AccountUpdate
    \/ OrderUpdate
    \/ AuthorizationUpdate
    \/ ChallengeUpdate

SpecStatus == InitUpdated /\ [][NextStatus]_vars

\* schema initialisation and update
NextSchema == DbUpdate \/ DbCreate

\* the nonce store used by one caller at a time
NextNonce == NonceAdd \/ NonceCheck \/ NonceDelete

SpecNonce == Init /\ [][NextNonce]_vars

\* the nonce store used by two concurrent callers
NextNonceConc ==
    \/ NonceAdd
    \/ \E c \in Callers : CallerCheck(c)
    \/ \E c \in Callers : CallerDelete(c)

SpecNonceConc == Init /\ [][NextNonceConc]_vars

\* certificates and CLI accounts, added and added again with further fields
NextUpsert ==
    \/ CertificateAdd
    \/ CertificateMerge
    \/ CliaccountAdd
    \/ CliaccountMerge

SpecUpsert == Init /\ [][NextUpsert]_vars


\* accounts: added, updated and deleted
NextAccount ==
    \/ AccountAdd
    \/ AccountUpdate
    \/ AccountDelete

SpecAccount == Init /\ [][NextAccount]_vars

\* accounts, CLI accounts and certificates: added and deleted
NextDelete ==
    \/ AccountAdd
    \/ AccountDelete
    \/ CliaccountAdd
    \/ CliaccountDelete
    \/ CertificateAdd
    \/ CertificateDelete

SpecDelete == Init /\ [][NextDelete]_vars


\* lookups on a backing store that can fail a request
NextFailure ==
    \/ AccountAdd
    \/ AuthorizationAdd
    \/ AccountLookup
    \/ AuthorizationLookup

SpecFailure == Init /\ [][NextFailure]_vars


\* orders and certificates: added and read back
NextRead ==
    \/ AccountAdd
    \/ OrderAddValid
    \/ OrderLookup
    \/ CertificateAdd
    \/ CertificateLookup
    \/ CertificatesSearch

SpecRead == Init /\ [][NextRead]_vars


\* orders with their authorizations and challenges
NextChallenge ==
    \/ AccountAdd
    \/ OrderAdd
    \/ AuthorizationAdd
    \/ ChallengeAdd
    \/ ChallengeUpdate

SpecChallenge == Init /\ [][NextChallenge]_vars


\* schema initialisation, update and the version probe
NextSchemaGuard ==
    \/ NextSchema
    \/ DbUpdateFails
    \/ DbversionGet
    \/ DirectoryGet
    \/ HkparameterAddVersion
    \/ AccountAdd

SpecSchema == Init /\ [][NextSchemaGuard]_vars


\* accounts are added before the callers start
AccountAddIdle ==
    /\ \A c \in Callers : pc[c] = "idle"
    /\ AccountAdd

\* accounts are added, then two callers run account_update concurrently
NextAccountConc ==
    \/ AccountAddIdle
    \/ \E c \in Callers : CallerFind(c)
    \/ \E c \in Callers : CallerWrite(c)

SpecAccountConc == Init /\ [][NextAccountConc]_vars


\* two callers run account_add concurrently, on a store that may already
\* hold accounts
NextAddConc ==
    \/ AccountAddIdle
    \/ \E c \in Callers : AdderFind(c)
    \/ \E c \in Callers : AdderWrite(c)

SpecAddConc == Init /\ [][NextAddConc]_vars


\* adds and updates of accounts and certificates on a store that may fail
NextAtomic ==
    \/ AccountAdd
    \/ AccountUpdateBoth
    \/ AccountUpdateFails
    \/ CertificateMerge
    \/ CertificateAddFails

SpecAtomic == Init /\ [][NextAtomic]_vars


\* Store contents for the list reports.  The reports join on 'account_id',
\* 'order_id', 'authorization_id' and 'status_id', fields the add operations
\* of this handler never write; each record is drawn in the form the handler
\* writes or in the form that carries the join keys, as another writer of the
\* same database leaves it.
ReportOrders ==
    {[_id |-> Oid(<<"orders", 1>>), name |-> Str(NameA),
      account |-> Oid(<<"account", 1>>), status |-> Num(2)],
     [_id |-> Oid(<<"orders", 1>>), name |-> Str(NameA),
      account_id |-> Oid(<<"account", 1>>), status_id |-> Oid(<<"status", 1>>)]}

ReportAuthorizations ==
    {[_id |-> Oid(<<"authorization", 1>>), name |-> Str(NameA),
      order |-> OidStr(<<"orders", 1>>)],
     [_id |-> Oid(<<"authorization", 1>>), name |-> Str(NameA),
      order_id |-> Oid(<<"orders", 1>>), status_id |-> Oid(<<"status", 1>>)]}

ReportChallenges ==
    {[_id |-> Oid(<<"challenge", 1>>), name |-> Str(NameA),
      authorization_id |-> Oid(<<"authorization", 1>>),
      status_id |-> Oid(<<"status", 1>>)]}

ReportCertificates ==
    UNION {WithOpt(c, "order_id", {Oid(<<"orders", 1>>)}) :
            c \in UNION {WithOpt(b, "cert_raw", {Str(<<"c">>)}) :
                    b \in UNION {WithOpt([_id |-> Oid(<<"certificate", 1>>), name |-> n],
                                         "csr", {Str(<<"r">>)}) : n \in Names}}}

InitReport ==
    LET s == db_update_status(<<>>, 1) IN
    /\ account = <<[_id |-> Oid(<<"account", 1>>), name |-> Str(NameA),
                    jwk |-> Str(<<"k", "1">>), alg |-> Str(<<"R", "S">>),
                    contact |-> Str(<<"c">>), eab_kid |-> EmptyStr]>>
    /\ orders \in {<<o>> : o \in ReportOrders}
    /\ authorization \in {<<z>> : z \in ReportAuthorizations}
    /\ challenge \in {<<>>} \cup {<<c>> : c \in ReportChallenges}
    /\ Certificate = <<>>
    /\ certificate \in {<<>>} \cup {<<c>> : c \in ReportCertificates}
    /\ status = s.coll
    /\ housekeeping = <<>>
    /\ cahandler = <<>>
    /\ cliaccount = <<>>
    /\ nonce = <<>>
    /\ nextid = [c \in CollectionNames |-> IF c = "status" THEN s.id ELSE 2]
    /\ ret = Result("init", None)
    /\ nlog = <<>>
    /\ pc = [c \in Callers |-> "idle"]
    /\ seen = [c \in Callers |-> [n |-> None, ok |-> FALSE]]
    /\ cli = CliInit
    /\ ca = CaInit

NextReport ==
    \/ AccountlistGet
    \/ CertificatelistGet

SpecReport == InitReport /\ [][NextReport]_vars


\* orders: created with their identifiers, then updated
NextOrder ==
    \/ AccountAdd
    \/ OrderAddValid
    \/ OrderUpdate

SpecOrder == InitUpdated /\ [][NextOrder]_vars


\* authorizations and challenges are added and the challenges searched
NextSearch ==
    \/ AuthorizationAdd
    \/ ChallengeAdd
    \/ ChallengesSearch

SpecSearch == Init /\ [][NextSearch]_vars


\* certificates of orders of accounts, and the check of their owner
NextCheck ==
    \/ AccountAdd
    \/ OrderAdd
    \/ CertificateAddRaw
    \/ CertificateAccountCheck

SpecCheck == Init /\ [][NextCheck]_vars


\* accounts: registered, re-keyed and deleted
NextKey ==
    \/ AccountAdd
    \/ AccountRekey
    \/ AccountDelete

SpecKey == Init /\ [][NextKey]_vars


\* the command-line client and the CA handler
NextClient == CliInput \/ EnrollCall \/ EnrollStep

SpecClient == Init /\ [][NextClient]_vars

\* a call of enroll that has begun keeps running
SpecClientFair == SpecClient /\ WF_vars(EnrollStep)


----------------------------------------------------------------------------
(* Predicates used by the properties *)

Vocabulary == {Str(status_names[i]) : i \in 1..Len(status_names)}

\* v is the identity of a registry entry of the vocabulary, or its name
Denotes(v) ==
    \/ \E i \in 1..Len(status) :
          /\ status[i]["_id"] = v
          /\ status[i]["name"] \in Vocabulary
    \/ v \in Vocabulary

StatusKeys == {"status", "status_id"}

\* the record carries a status, and every status it carries is in the registry
StatusOk(d) ==
    /\ DOMAIN d \cap StatusKeys # {}
    /\ \A k \in DOMAIN d \cap StatusKeys : Denotes(d[k])

\* a record of coll is named exactly v
Named(coll, v) == \E i \in 1..Len(coll) : ExactMatch(coll[i], "name", v)

\* the store-assigned keys of the records of coll named exactly v
KeysOf(coll, v) ==
    {coll[i]["_id"] : i \in {j \in 1..Len(coll) : ExactMatch(coll[j], "name", v)}}

Failed(res) == res = None \/ IsRaise(res)

NamesUnique(coll) ==
    \A i, j \in 1..Len(coll) :
        (i < j /\ Has(coll[i], "name") /\ Has(coll[j], "name"))
            => coll[i]["name"] # coll[j]["name"]

----------------------------------------------------------------------------
(* Properties *)

\* C1: the status stored on every Order, Authorization and Challenge record
\* denotes one of the eight Status Registry entries.
C1_StatusInRegistry ==
    /\ \A i \in 1..Len(orders) : StatusOk(orders[i])
    /\ \A i \in 1..Len(authorization) : StatusOk(authorization[i])
    /\ \A i \in 1..Len(challenge) : StatusOk(challenge[i])

\* C2: authorization_add that references an Order name which no order has
\* fails and creates no record: the authorization collection is unchanged.
C2_AuthorizationAddDangling ==
    [][\A d \in AuthorizationInputs :
          (authorization_add(d) /\ ~Named(orders, d["order"]))
              => (Failed(ret'.res) /\ authorization' = authorization)]_vars

\* C3: certificate_add of a certificate name not stored yet, whose 'order'
\* names no stored order, fails and writes no certificate record.
C3_CertificateAddDangling ==
    [][\A d \in CertificateInputs :
          (/\ certificate_add(d)
           /\ ~Named(Certificate, d["name"])
           /\ ~Named(orders, d["order"]))
              => (Failed(ret'.res) /\ Certificate' = Certificate)]_vars

\* C4: challenge_add whose 'authorization' names no stored authorization
\* returns the failure result (no identity) and leaves the challenge
\* collection unchanged.
C4_ChallengeAddDangling ==
    [][\A d \in ChallengeInputs :
          (challenge_add(d) /\ ~Named(authorization, d["authorization"]))
              => (ret'.res = None /\ challenge' = challenge)]_vars

\* C5: order_add whose 'account' names no stored account returns the failure
\* result (no identity) and leaves the orders collection unchanged.
C5_OrderAddDangling ==
    [][\A d \in OrderInputs :
          (order_add(d) /\ ~Named(account, d["account"]))
              => (ret'.res = None /\ orders' = orders)]_vars

\* the add appended one record to coll whose field holds the key of a record
\* of parent named v, and returned an identity
Resolved(before, after, res, field, parent, v) ==
    /\ ~Failed(res)
    /\ Len(after) = Len(before) + 1
    /\ Has(after[Len(after)], field)
    /\ after[Len(after)][field] \in KeysOf(parent, v)

\* C6: when the parent named in the foreign-key field exists, order_add,
\* authorization_add, challenge_add and certificate_add succeed and the
\* persisted reference field holds the parent's store-assigned key.
C6_AddResolvesParent ==
    [][/\ \A d \in OrderInputs :
            (order_add(d) /\ Named(account, d["account"]))
                => Resolved(orders, orders', ret'.res, "account", account, d["account"])
       /\ \A d \in AuthorizationInputs :
            (authorization_add(d) /\ Named(orders, d["order"]))
                => Resolved(authorization, authorization', ret'.res,
                            "order", orders, d["order"])
       /\ \A d \in ChallengeInputs :
            (challenge_add(d) /\ Named(authorization, d["authorization"]))
                => Resolved(challenge, challenge', ret'.res,
                            "authorization", authorization, d["authorization"])
       /\ \A d \in CertificateInputs :
            (/\ certificate_add(d)
             /\ ~Named(Certificate, d["name"])
             /\ Named(orders, d["order"]))
                => Resolved(Certificate, Certificate', ret'.res,
                            "order", orders, d["order"])]_vars

\* the add and delete calls on the nonce of log entry j that precede it
PriorOps(j) ==
    LET sel == SelectSeq(SubSeq(nlog, 1, j - 1),
                         LAMBDA e : e.n = nlog[j].n /\ e.op # "check")
    IN [i \in 1..Len(sel) |-> sel[i].op]

\* no nonce_add(n) lies strictly between log entries i and j
NoAddBetween(i, j, n) ==
    \A k \in (i + 1)..(j - 1) : ~(nlog[k].op = "add" /\ nlog[k].n = n)

\* C7: once nonce_delete(n) has completed, nonce_check(n) returns false until
\* a later nonce_add(n), whatever calls came before the delete.
C7_NonceSingleUse ==
    \A i, j \in 1..Len(nlog) :
        (/\ i < j
         /\ nlog[i].op = "delete"
         /\ nlog[j].op = "check"
         /\ nlog[j].n = nlog[i].n
         /\ NoAddBetween(i, j, nlog[i].n))
            => ~nlog[j].res

\* C8: from a store without nonce n, nonce_check(n) is true after nonce_add(n)
\* and false after a following nonce_delete(n).
C8_NonceAddCheckDelete ==
    \A j \in 1..Len(nlog) :
        nlog[j].op = "check" =>
            /\ PriorOps(j) = <<"add">> => nlog[j].res
            /\ PriorOps(j) = <<"add", "delete">> => ~nlog[j].res

\* C8 witness: a nonce was added, checked, deleted and checked again
C8_Witness ==
    \E i, j \in 1..Len(nlog) :
        /\ i < j
        /\ nlog[i].op = "check" /\ nlog[j].op = "check"
        /\ nlog[i].n = nlog[j].n
        /\ PriorOps(i) = <<"add">> /\ nlog[i].res
        /\ PriorOps(j) = <<"add", "delete">> /\ ~nlog[j].res

\* number of nonce_add(n) calls so far
AddCount(n) ==
    Cardinality({i \in 1..Len(nlog) : nlog[i].op = "add" /\ nlog[i].n = n})

\* C9: for a nonce added once, at most one of the concurrent callers that
\* validate it observes nonce_check = true.
C9_NonceConsumedOnce ==
    \A n \in NonceSet :
        AddCount(n) = 1 =>
            Cardinality({c \in Callers : seen[c].n = n /\ seen[c].ok}) <= 1

\* C10: no entity collection holds two records with the same name.
C10_NameUnique ==
    /\ NamesUnique(account)
    /\ NamesUnique(orders)
    /\ NamesUnique(authorization)
    /\ NamesUnique(challenge)
    /\ NamesUnique(Certificate)
    /\ NamesUnique(certificate)
    /\ NamesUnique(cliaccount)
    /\ NamesUnique(cahandler)
    /\ NamesUnique(housekeeping)

\* field k of record e has never been given a value: it is absent or holds
\* the None or '' that the store itself fills in
Unset(e, k) == ~Has(e, k) \/ e[k] = None \/ e[k] = EmptyStr

\* the add of d hit the records of 'before' named d's name and merged d into
\* them: no record was added, every supplied field holds the supplied value,
\* and every field given a value earlier keeps it
Merged(before, after, d) ==
    /\ Len(after) = Len(before)
    /\ \A i \in 1..Len(before) :
          ExactMatch(before[i], "name", d["name"]) =>
              /\ \A k \in DOMAIN d : Has(after[i], k) /\ after[i][k] = d[k]
              /\ \A k \in DOMAIN before[i] \ DOMAIN d :
                    ~Unset(before[i], k) =>
                        (Has(after[i], k) /\ after[i][k] = before[i][k])

\* d supplies only fields that the stored records of its name have no value for
Disjoint(coll, d) ==
    \A i \in 1..Len(coll) :
        ExactMatch(coll[i], "name", d["name"]) =>
            \A k \in DOMAIN d \ {"name"} : Unset(coll[i], k)

\* C11: a second add for an existing name with a disjoint field set leaves a
\* single record holding the union of both field sets with the supplied values
\* (certificate_add with 'error' and other fields, or with 'csr', included).
C11_UpsertMerges ==
    [][/\ \A d \in CertificateMergeInputs :
            (/\ certificate_add(d)
             /\ Named(Certificate, d["name"])
             /\ Disjoint(Certificate, d))
                => Merged(Certificate, Certificate', d)
       /\ \A d \in CliaccountMergeInputs :
            (/\ cliaccount_add(d)
             /\ Named(cliaccount, d["name"])
             /\ Disjoint(cliaccount, d))
                => Merged(cliaccount, cliaccount', d)]_vars


\* the add of d left every field that d does not supply, on every record of
\* 'before' named d's name, as it was, and added no record
Retained(before, after, d) ==
    /\ Len(after) = Len(before)
    /\ \A i \in 1..Len(before) :
          ExactMatch(before[i], "name", d["name"]) =>
              \A k \in DOMAIN before[i] \ DOMAIN d :
                  Has(after[i], k) /\ after[i][k] = before[i][k]

\* C12: when an upsert add hits an existing record, every field the caller did
\* not supply keeps its stored value (cliaccount_add: the permission flags;
\* certificate_add: every unsupplied field).
C12_UpsertRetains ==
    [][/\ \A d \in CliaccountInputs \cup CliaccountMergeInputs :
            (cliaccount_add(d) /\ Named(cliaccount, d["name"]))
                => Retained(cliaccount, cliaccount', d)
       /\ \A d \in CertificateInputs \cup CertificateMergeInputs :
            (certificate_add(d) /\ Named(Certificate, d["name"]))
                => Retained(Certificate, Certificate', d)]_vars


\* an account with the public-key material of d is stored
JwkKnown(d) == \E i \in 1..Len(account) : ExactMatch(account[i], "jwk", d["jwk"])

\* the names of the stored accounts, in order (None for a nameless record)
AccountNames(coll) == [i \in 1..Len(coll) |-> Get(coll[i], "name")]

\* C13: account_add returns (identity, created); created is true exactly when
\* no account with the supplied jwk existed; the collection grows by one when
\* created, and otherwise keeps its size and names and the identity is the
\* existing account's name.
C13_AccountAddResult ==
    [][\A d \in AccountInputs :
          account_add(d) =>
            /\ ret'.res[1] = "pair"
            /\ ret'.res[2][2] = Bool(~JwkKnown(d))
            /\ ~JwkKnown(d) =>
                  /\ Len(account') = Len(account) + 1
                  /\ ret'.res[2][1] = d["name"]
            /\ JwkKnown(d) =>
                  /\ AccountNames(account') = AccountNames(account)
                  /\ \E i \in 1..Len(account) :
                        /\ ExactMatch(account[i], "jwk", d["jwk"])
                        /\ ret'.res[2][1] = account[i]["name"]]_vars

\* C13 witness: with two accounts stored, account_add has hit an existing one
C13_Witness ==
    /\ ret.op = "account_add"
    /\ ret.res[2][2] = Bool(FALSE)
    /\ \E i \in 1..Len(account) : account[i]["name"] = ret.res[2][1]
    /\ Len(account) >= 2


\* C14: order_update, authorization_update and challenge_update of a stored
\* record with a status name outside the vocabulary return a failure to the
\* caller and leave the stored records unchanged.
C14_UnknownStatusRejected ==
    [][\A d \in UpdateInputs :
          (Has(d, "status") /\ d["status"] \notin Vocabulary) =>
              /\ (order_update(d) /\ Named(orders, d["name"]))
                    => (~IsRaise(ret'.res) /\ orders' = orders)
              /\ (authorization_update(d) /\ Named(authorization, d["name"]))
                    => (~IsRaise(ret'.res) /\ authorization' = authorization)
              /\ (challenge_update(d) /\ Named(challenge, d["name"]))
                    => (~IsRaise(ret'.res) /\ challenge' = challenge)]_vars


\* C15: every public store operation ends by returning a result value; none
\* ends in an unhandled exception.
C15_NoUnhandledException == ~IsRaise(ret.res)


\* the result of a lookup that found no match
NoMatch(res) == res = Dict(<<>>) \/ res = List(<<>>)

\* C16: when the backing store fails during a lookup or a composite query, the
\* operation does not return what a successful lookup without a match returns.
C16_StoreFailureSurfaced ==
    [][\A n \in Names :
          /\ (ret' = Result("account_lookup", account_lookup_try(FALSE, "name", n)))
                => ~NoMatch(ret'.res)
          /\ (ret' = Result("authorization_lookup",
                            authorization_lookup_try(FALSE, "name", n)))
                => ~NoMatch(ret'.res)]_vars


\* C17: account_update, order_update, authorization_update and challenge_update
\* addressed to a name that no record has return a failure, create no record
\* and leave every collection unchanged.
C17_UpdateOfMissingRecord ==
    [][/\ \A d \in AccountUpdateInputs :
            (account_update(d) /\ ~Named(account, d["name"]))
                => (ret'.res = None /\ UNCHANGED dbvars)
       /\ \A d \in UpdateInputs :
            /\ (order_update(d) /\ ~Named(orders, d["name"]))
                  => (ret'.res = None /\ UNCHANGED dbvars)
            /\ (authorization_update(d) /\ ~Named(authorization, d["name"]))
                  => (ret'.res = None /\ UNCHANGED dbvars)
            /\ (challenge_update(d) /\ ~Named(challenge, d["name"]))
                  => (ret'.res = None /\ UNCHANGED dbvars)]_vars


\* the delete of the record named v returned whether such a record existed,
\* removed one such record when it did, and changed nothing when it did not
Deleted(before, after, res, v) ==
    /\ res = Bool(Named(before, v))
    /\ Named(before, v) =>
          /\ Len(after) = Len(before) - 1
          /\ CountDocuments(after, Exact("name", v))
                = CountDocuments(before, Exact("name", v)) - 1
    /\ ~Named(before, v) => after = before

\* C18: account_delete, cliaccount_delete and certificate_delete return true
\* exactly when a record with the given key existed, which is then gone, and
\* return false and change nothing otherwise; certificate_delete('name', n)
\* after a successful certificate_add of n returns true.
C18_DeleteResult ==
    [][/\ \A n \in Names :
            account_delete(n) => Deleted(account, account', ret'.res, n)
       /\ \A d \in CliaccountInputs :
            cliaccount_delete(d)
                => Deleted(cliaccount, cliaccount', ret'.res, d["name"])
       /\ \A n \in Names :
            certificate_delete("name", n) =>
                /\ Named(Certificate, n) => ret'.res = Bool(TRUE)
                /\ Deleted(Certificate \o certificate, Certificate' \o certificate',
                           ret'.res, n)]_vars


\* C19: after order_add of a valid order for an existing account,
\* order_lookup('name', that name) returns a record whose notbefore, notafter,
\* identifiers and expires equal the supplied values.
C19_OrderRoundTrip ==
    [][\A d \in OrderValidInputs :
          (/\ ret' = Result("order_lookup", order_lookup("name", d["name"], order_vlist))
           /\ Named(orders, d["name"]))
              => /\ ret'.res[1] = "dict"
                 /\ ret'.res[2] # <<>>
                 /\ \A k \in {"notbefore", "notafter", "identifiers", "expires"} :
                       ret'.res[2][1][k] = d[k]]_vars

\* C20: after a successful certificate_add of a record named n,
\* certificate_lookup('name', n) and certificates_search('name', n) return
\* that record with the supplied name.
C20_CertificateRoundTrip ==
    [][\A n \in Names :
          Named(Certificate, n) =>
            /\ (ret' = Result("certificate_lookup",
                              certificate_lookup("name", n, certificate_vlist)))
                  => /\ ret'.res[1] = "dict"
                     /\ ret'.res[2] # <<>>
                     /\ ret'.res[2][1]["name"] = n
            /\ (ret' = Result("certificates_search",
                              certificates_search("name", n, certificate_vlist)))
                  => /\ ret'.res[1] = "list"
                     /\ \E i \in 1..Len(ret'.res[2]) :
                           Get(ret'.res[2][i], "name") = n]_vars


\* the lookup result res reports the status name s
ReportsStatus(res, s) ==
    /\ res[1] = "dict"
    /\ res[2] # <<>>
    /\ Get(res[2][1], "status") = s

\* some row of the list result res reports the status name s
RowReportsStatus(res, s) ==
    /\ res[1] = "list"
    /\ \E i \in 1..Len(res[2]) : Get(res[2][i], "status__name") = s

\* C21: after order_update (authorization_update) of an existing record with a
\* vocabulary status name S, the next order_lookup (authorization_lookup) of
\* that record reports status S.
C21_StatusUpdateObservable ==
    [][\A d \in UpdateInputs :
          (Has(d, "status") /\ d["status"] \in Vocabulary) =>
              /\ (order_update(d) /\ Named(orders, d["name"]))
                    => ReportsStatus(order_lookup("name", d["name"], order_vlist)',
                                     d["status"])
              /\ (authorization_update(d) /\ Named(authorization, d["name"]))
                    => RowReportsStatus(
                          authorization_lookup_try(TRUE, "name", d["name"])',
                          d["status"])]_vars


\* authorization z was added for order o: its reference is o's name, the
\* identity order_add returned, or o's key
AddedFor(z, o) ==
    /\ Has(z, "order")
    /\ z["order"] \in {o["name"], OidStr(o["_id"][2]), o["_id"]}

\* the store holds the scenario's records: one account named n, one order,
\* owned by it, and one authorization, added for that order
OneOfEach(n) ==
    /\ Added(account) = 1 /\ Named(account, n)
    /\ Len(orders) = 1 /\ orders[1]["account"] \in KeysOf(account, n)
    /\ Len(authorization) = 1 /\ AddedFor(authorization[1], orders[1])

\* rows is exactly one row, with the order's name and the authorization's own
\* status
OneRow(rows) ==
    /\ Len(rows) = 1
    /\ Get(rows[1], "order__name") = orders[1]["name"]
    /\ Has(authorization[1], "status") =>
          \E i \in 1..Len(status) :
              /\ status[i]["_id"] = authorization[1]["status"]
              /\ Get(rows[1], "status__name") = status[i]["name"]

\* C22: with one account, one order for it and one authorization for that
\* order, the composite authorization search by the owning account's name
\* returns exactly one row, with the order's name and the authorization's own
\* status.
C22_CompositeSearchScenario ==
    \A n \in Names :
        OneOfEach(n) =>
            \E column \in {"order__account__name", "account_data.name"} :
                OneRow(authorization_search(column, n))


SearchedRows ==
    UNION {{authorization_search("name", n)[i] :
                i \in 1..Len(authorization_search("name", n))} : n \in Names}

\* C24: the composite authorization search never returns a row for an
\* authorization whose owning order does not exist: every returned row
\* carries the identity of its order.
C24_NoRowWithoutOrder ==
    \A row \in SearchedRows : Has(row, "order__id")


\* the values of the dbversion records of the housekeeping collection
Persisted ==
    {housekeeping[i]["value"] :
        i \in {j \in 1..Len(housekeeping) :
                  /\ ExactMatch(housekeeping[j], "name", DbVersionName)
                  /\ Has(housekeeping[j], "value")}}

\* the version dbversion_get returns while the store answers
ProbedVersion == dbversion_get(TRUE)[2][1]

\* C25: dbversion_get on a store initialised by _db_create returns the running
\* code's version, and once db_update has ended normally the persisted
\* version, which dbversion_get returns, is the running code's version.
C25_VersionAfterInit ==
    (ret.op = "db_create" \/ (ret.op = "db_update" /\ ~IsRaise(ret.res)))
        => (ProbedVersion = dbversion /\ Persisted = {dbversion})

DbCheck(res) == res[2][1]["meta"]["db_check"]

\* C27: with db_check enabled directory_get returns the directory response
\* with db_check 'OK' exactly when the version can be read and equals the
\* expected one, and with 'NOK' otherwise; without db_check the response
\* carries no db_check.
C27_DbCheckNonFatal ==
    \A up \in BOOLEAN :
        LET res == directory_get(TRUE, up) IN
        /\ res[1] = "dict" /\ Len(res[2]) = 1
        /\ Has(res[2][1]["meta"], "db_check")
        /\ DbCheck(res) = Str(<<"O","K">>) <=> (up /\ Persisted = {dbversion})
        /\ DbCheck(res) = Str(<<"N","O","K">>) <=> (~up \/ Persisted # {dbversion})
        /\ ~Has(directory_get(FALSE, up)[2][1]["meta"], "db_check")

\* C27 witness: directory_get has answered 'NOK' on a stale persisted version
C27_Witness ==
    /\ ret.op = "directory_get"
    /\ Has(ret.res[2][1]["meta"], "db_check")
    /\ DbCheck(ret.res) = Str(<<"N","O","K">>)
    /\ Persisted = {StaleVersion}

\* C28: after any run of _db_create or db_update the status collection holds
\* exactly the eight vocabulary names, each exactly once.
C28_RegistryComplete ==
    (ret.op \in {"db_create", "db_update"})
        => /\ {status[i]["name"] : i \in 1..Len(status)} = Vocabulary
           /\ Len(status) = Len(status_names)

\* names outside the vocabulary, two of them substrings of vocabulary names
OutsideNames == {Str(BogusStatus), Str(<<"v","a","l">>), Str(<<"r","e","v">>)}

\* C29: on an initialised registry, resolving a vocabulary name yields the
\* entry of exactly that name, and resolving a name outside the vocabulary
\* yields no entry.
C29_StatusResolutionExact ==
    status # <<>> =>
        /\ \A n \in Vocabulary :
              LET r == status_search("name", n) IN
              r[2] /\ r[1][1]["name"] = n
        /\ \A n \in OutsideNames : ~status_search("name", n)[2]


\* C30: when the two concurrent account_update calls, one supplying only
\* 'contact' and the other only 'alg', have both updated the account, the
\* record holds both supplied values.
C30_ConcurrentMerge ==
    (\A c \in Callers : pc[c] = "done")
        => \E i \in 1..Len(account) :
              /\ ExactMatch(account[i], "name", Str(NameA))
              /\ account[i]["contact"] = CallerFields(1, Str(NameA))["contact"]
              /\ account[i]["alg"] = CallerFields(2, Str(NameA))["alg"]


\* C31: when two concurrent account_add calls with the same jwk have both
\* ended, the store holds exactly one account with that jwk and at most one
\* of the callers inserted a record (was told that it created the account).
C31_ConcurrentUpsert ==
    ((\A c \in Callers : pc[c] = "added") /\ seen[1].n["jwk"] = seen[2].n["jwk"])
        => /\ CountDocuments(account, Exact("jwk", seen[1].n["jwk"])) = 1
           /\ Cardinality({c \in Callers : ~seen[c].ok}) <= 1


OrderFixed == {"_id", "name", "account", "identifiers"}

\* C34: no step changes the identifiers, the name or the owning account of an
\* existing order record, and no step removes an order.
C34_OrderIdentifiersImmutable ==
    [][/\ Len(orders') >= Len(orders)
       /\ \A i \in 1..Len(orders) :
             \A k \in OrderFixed :
                 /\ Has(orders[i], k) <=> Has(orders'[i], k)
                 /\ Has(orders[i], k) => orders'[i][k] = orders[i][k]]_vars

\* C34 witness: order_update has run for the name of a stored order that
\* carries identifiers
C34_Witness ==
    /\ ret.op = "order_update"
    /\ \A n \in Names :
          \E i \in 1..Len(orders) :
              ExactMatch(orders[i], "name", n) /\ Has(orders[i], "identifiers")


\* C35: challenges_search returns a list, empty when no challenge matches.
C35_ChallengesSearchList ==
    (ret.op = "challenges_search") => ret.res[1] = "list"


\* the stored certificates with raw certificate c whose order exists, with
\* that order
CertOrders(c) ==
    {<<d, o>> \in
        {Certificate[i] : i \in 1..Len(Certificate)}
            \X {orders[i] : i \in 1..Len(orders)} :
        /\ ExactMatch(d, "cert_raw", c)
        /\ Has(d, "order") /\ d["order"] = o["_id"]}

\* account_name is empty or names the account that owns order o
OwnerOk(account_name, o) ==
    \/ account_name = EmptyStr
    \/ \E i \in 1..Len(account) :
          /\ Has(o, "account") /\ account[i]["_id"] = o["account"]
          /\ ExactMatch(account[i], "name", account_name)

C37_JwkUnique ==
    \A i, j \in 1..Len(account) :
        (i < j /\ Has(account[i], "jwk") /\ Has(account[j], "jwk"))
            => account[i]["jwk"] # account[j]["jwk"]


\* C38: order_add attaches the order to the account named exactly as the
\* supplied account name and adds nothing when no account has exactly that
\* name; cliaccount_add changes no record whose name is not exactly the
\* supplied name.
C38_ExactNameAddressing ==
    [][/\ \A d \in OrderInputs :
              order_add(d) =>
                  IF Named(account, d["account"])
                  THEN /\ Len(orders') = Len(orders) + 1
                       /\ orders'[Len(orders')]["account"] \in KeysOf(account, d["account"])
                  ELSE orders' = orders /\ ret'.res = None
       /\ \A d \in CliaccountInputs :
              cliaccount_add(d) =>
                  \A i \in 1..Len(cliaccount) :
                      ~ExactMatch(cliaccount[i], "name", d["name"])
                          => cliaccount'[i] = cliaccount[i]]_vars


\* the command word of a line that is a command: what follows the '/' up to
\* the first blank
CommandWord(cmdinput) == Split(Tail(RStrip(cmdinput)))[1]

IsCommand(cmdinput) ==
    Len(RStrip(cmdinput)) > 1 /\ StartsWith(RStrip(cmdinput), <<"/">>)

\* '/server <url>' with a valid URL
IsServerUrl(cmdinput) ==
    /\ IsCommand(cmdinput)
    /\ LET parts == Split(Tail(RStrip(cmdinput))) IN
       Len(parts) = 2 /\ parts[1] = <<"s", "e", "r", "v", "e", "r">> /\ is_url(parts[2])

\* C39: the status of the command-line client starts as 'server missing' and
\* becomes 'configured' only by a '/server <url>' command with a valid URL;
\* once 'configured' it never returns to 'server missing'; while it is
\* 'server missing' every command other than help and server is rejected with
\* the request to set the server first; a line that does not start with '/'
\* changes neither the status nor the server.
C39_ServerStatus ==
    /\ cli.status = ServerMissing
    /\ [][\A cmdinput \in CliInputs :
            (cli.alive /\ cli' = exec_cmd(cli, cmdinput)) =>
                /\ (cli.status = ServerMissing /\ cli'.status = Configured)
                        => IsServerUrl(cmdinput)
                /\ cli.status = Configured => cli'.status = Configured
                /\ ( /\ cli.status = ServerMissing
                     /\ IsCommand(cmdinput)
                     /\ CommandWord(cmdinput) \notin
                            {<<"h", "e", "l", "p">>, <<"H">>, <<"s", "e", "r", "v", "e", "r">>} )
                        => /\ cli'.out = "set server first"
                           /\ cli'.status = cli.status
                           /\ cli'.server = cli.server
                /\ ~StartsWith(cmdinput, <<"/">>)
                        => cli'.status = cli.status /\ cli'.server = cli.server]_vars

\* C40: a call of CAhandler.enroll that has begun returns its
\* (error, cert_bundle, cert_raw, poll_identifier) tuple, whatever the remote
\* CA does.
C40_EnrollReturns == (ca.pc # "idle") ~> (ca.pc = "returned")

====
